---------------------------- MODULE Spec2Model ----------------------------
(***************************************************************************)
(* State-machine model of the SFTP server core (samterainsights/sftp):     *)
(* Serve's read loop, the packet manager's dispatcher and controller, the  *)
(* worker pool running packetWorker, and the handle registry.              *)
(*                                                                         *)
(* Goroutines are modelled as processes with a program counter.  A step    *)
(* ends where a goroutine can block or be overtaken: a channel send, a     *)
(* WaitGroup wait, a handler call.  The dispatcher's receive from pktChan  *)
(* is one step with the admission that follows it; an iteration of the     *)
(* controller (receive, sort, sendReadyPackets) is one step; the identical *)
(* workers of the read/write pool are kept as the set of packets they      *)
(* hold; a worker whose channel is closed and drained counts as returned.  *)
(***************************************************************************)
EXTENDS Integers, Sequences, FiniteSets, TLC

(***************************************************************************)
(* Bounds of the model.                                                    *)
(***************************************************************************)
\* number of frames the client sends before the transport reports EOF/error
MaxReqs == 2
\* size of the read/write worker pool (sftpServerWorkerCount in the source
\* is 8; the pipeline is explored with a smaller pool)
NumRW == 2
\* capacity of the buffered channels (also sftpServerWorkerCount in the source)
ChanCap == 1

(***************************************************************************)
(* Program constants.                                                      *)
(***************************************************************************)
maxReadWriteSize == 32768
MaxReaddirItems == 100
ProtocolVersion == 3

fxOK == 0
fxEOF == 1
fxNoSuchFile == 2
fxPermissionDenied == 3
fxFailure == 4
fxBadMessage == 5
fxOpUnsupported == 8

VARIABLES
    pcServe,      \* Serve: "reading" | "wgwait" | "closeall" | "returned"
    serveErr,     \* the error Serve returns ("none" while reading)
    counter,      \* packetManager.counter: last order id handed out
    reqLog,       \* history: the decoded requests in the order they were read
    pktChan,      \* Serve -> dispatcher channel (buffered)
    pktChanClosed,
    pcDisp,       \* dispatcher: "recv" | "send" | "mgrclose" | "done"
    dispPkt,      \* packet the dispatcher currently holds
    rwChan,       \* dispatcher -> read/write pool (buffered)
    workClosed,   \* rwChan and cmdChan closed
    pool,         \* read/write pool: the packets its workers hold, each with
                  \* the file getFile returned and the response once computed
    cmdPc,        \* serial worker: "idle" | "busy" | "ready"
    cmdPkt,       \* packet the serial worker is processing
    cmdReply,     \* response the serial worker is about to hand to readyPacket
    working,      \* packetManager.working (WaitGroup counter)
    requests,     \* packetManager.requests channel
    responses,    \* packetManager.responses channel
    finiClosed,   \* packetManager.fini closed
    pcCtl,        \* controller: "select" | "done"
    incoming,     \* packetManager.incoming
    outgoing,     \* packetManager.outgoing
    wire,         \* history: every Write call on the transport, in order
    openFiles,    \* server.openFiles: handle -> file resource
    openDirs,     \* server.openDirs: handle -> directory resource
    handleCtr,    \* server.handleCtr
    res,          \* the handler's resources ever returned by OpenFile/OpenDir
    lastReply,    \* the exchange most recently completed: request, decode
                  \* error, handler calls and response
    mpkt,         \* codec: the value handed to the codec (a packet for
                  \* MarshalBinary, a byte string for the take functions)
    mbytes,       \* codec: the bytes MarshalBinary returned for it
    upkt,         \* codec: what UnmarshalBinary / a take function returned
    config,       \* what the integrator configured: HostFS.AllowWrite and
                  \* the SYMLINK field order asked for
    hostfs,       \* the host filesystem a HostFS handler works on
    crashed       \* an unrecovered panic ended the process

vars == <<pcServe, serveErr, counter, reqLog, pktChan, pktChanClosed, pcDisp,
          dispPkt, rwChan, workClosed, pool, cmdPc, cmdPkt, cmdReply, working,
          requests,
          responses, finiClosed, pcCtl, incoming, outgoing, wire, openFiles,
          openDirs, handleCtr, res, lastReply, mpkt, mbytes, upkt, config,
          hostfs, crashed>>

(***************************************************************************)
(* Small helpers.                                                          *)
(***************************************************************************)
Min(a, b) == IF a < b THEN a ELSE b

Range(s) == {s[i] : i \in 1..Len(s)}

(***************************************************************************)
(* uint32.  A uint32 is held as the 32-bit two's complement integer with   *)
(* the same bits: 0 .. 2^31-1 stand for themselves, and -2^31 .. -1 stand  *)
(* for 2^31 .. 2^32-1.  server.handleCtr is a uint32.  The order-id        *)
(* counter is a uint32 in the earlier packet manager and a uint in         *)
(* packet-manager.go, 32 bits wide on 32-bit builds; at either width its   *)
(* maximum is followed by 0 and compares above every other value.          *)
(***************************************************************************)
\* the uint32 with the 16-bit halves hi and lo
u32(hi, lo) == (IF hi >= 32768 THEN hi - 65536 ELSE hi) * 65536 + lo

\* v + 1 in uint32 arithmetic: 2^32-1 is followed by 0
u32Inc(v) == IF v = 2147483647 THEN (0 - 2147483647) - 1 ELSE v + 1

\* a < b between uint32 values
u32Less(a, b) == IF (a < 0) = (b < 0) THEN a < b ELSE b < 0



(***************************************************************************)
(* Go errors, as far as statusFromError distinguishes them.                *)
(***************************************************************************)
ErrNil == [class |-> "nil", v |-> 0]
ioEOF == [class |-> "io.EOF", v |-> 0]
osErrNotExist == [class |-> "os.ErrNotExist", v |-> 0]
errNoSuchHandle == [class |-> "errors.New", v |-> 1]
errShortPacket == [class |-> "errors.New", v |-> 2]
errUnknownType == [class |-> "errors.New", v |-> 3]
errUnknownExtendedPacket == [class |-> "errors.New", v |-> 4]
ENOENT == [class |-> "errno", v |-> 2]
EPERM == [class |-> "errno", v |-> 1]
EIO == [class |-> "errno", v |-> 5]
Fxerr(c) == [class |-> "fxerr", v |-> c]
ErrOpUnsupported == Fxerr(fxOpUnsupported)
ErrBadMessage == Fxerr(fxBadMessage)
ErrPermDenied == Fxerr(fxPermissionDenied)
\* syscall.Errno(0), a non-nil error value
Errno0 == [class |-> "errno", v |-> 0]
\* *os.PathError whose Err is the syscall.Errno errno
PathError(errno) == [class |-> "PathError", v |-> errno]
\* *os.PathError whose Err is not a syscall.Errno
PathErrorOther == [class |-> "PathErrorOther", v |-> 0]
\* an error value of the handler's own
errHandler == [class |-> "errors.New", v |-> 9]

\* translateErrno without the case for errno 0
translateErrno_plain(errno) ==
    CASE errno = 2 -> fxNoSuchFile
      [] errno = 1 -> fxPermissionDenied
      [] OTHER -> fxFailure

translateErrno(errno) ==
    CASE errno = 0 -> fxOK
      [] errno = 2 -> fxNoSuchFile
      [] errno = 1 -> fxPermissionDenied
      [] OTHER -> fxFailure

StatusCode(err) ==
    CASE err.class = "nil" -> fxOK
      [] err.class = "errno" -> translateErrno(err.v)
      [] err.class = "PathError" -> translateErrno(err.v)
      [] err.class = "fxerr" -> err.v
      [] err.class = "io.EOF" -> fxEOF
      [] err.class = "os.ErrNotExist" -> fxNoSuchFile
      [] OTHER -> fxFailure

\* a response packet; n is the number of data bytes (DATA) or items (NAME),
\* or the Size of the attributes (ATTRS of FSTAT)
Reply(type, id, code, n, h) ==
    [type |-> type, id |-> id, code |-> code, n |-> n, h |-> h, order |-> 0]

statusFromError(p, err) == Reply("STATUS", p.id, StatusCode(err), 0, <<>>)

(***************************************************************************)
(* Packets.  A frame is what the client put on the transport; short says   *)
(* where its payload ends early ("no": the payload is complete).           *)
(***************************************************************************)
KnownKinds == {"INIT", "OPEN", "CLOSE", "READ", "WRITE", "LSTAT", "FSTAT",
               "SETSTAT", "FSETSTAT", "OPENDIR", "READDIR", "REMOVE", "MKDIR",
               "RMDIR", "REALPATH", "STAT", "RENAME", "READLINK", "SYMLINK",
               "EXTENDED"}

\* kinds whose payload has fields after the id and the first string
TailKinds == {"OPEN", "READ", "WRITE", "SETSTAT", "FSETSTAT", "MKDIR",
              "RENAME", "SYMLINK"}

Frame(kind, id, h, len, short) ==
    [kind |-> kind, id |-> id, h |-> h, len |-> len, short |-> short]

\* The RequestName of an EXTENDED frame is its first string and is kept in
\* h: "posix-rename@openssh.com", "statvfs@openssh.com", and
\* "fsync@openssh.com" for a name the package has no packet type for.
posixRenameExt ==
    <<112, 111, 115, 105, 120, 45, 114, 101, 110, 97, 109,
      101, 64, 111, 112, 101, 110, 115, 115, 104, 46, 99, 111, 109>>
statvfsExt ==
    <<115, 116, 97, 116, 118, 102, 115, 64, 111, 112, 101, 110, 115, 115, 104, 46, 99, 111, 109>>
otherExt ==
    <<102, 115, 121, 110, 99, 64, 111, 112, 101, 110, 115, 115, 104, 46, 99, 111, 109>>
ExtNames == {posixRenameExt, statvfsExt, otherExt}

\* the nil requestPacket interface value
NilPkt == [kind |-> "nil", id |-> 0, h |-> <<>>, len |-> 0, attrNil |-> TRUE,
           order |-> 0]

\* a makePacket whose EXTENDED case looks at the request name and reports a
\* name it has no packet type for as errUnknownExtendedPacket
makePacket_naming(fr) ==
    IF fr.kind \notin KnownKinds
    THEN [pkt |-> NilPkt, err |-> errUnknownType]
    ELSE LET gotId  == fr.short # "id"
             gotStr == fr.short \in {"no", "tail"}
             gotAll == fr.short = "no"
         IN [pkt |-> [kind    |-> fr.kind,
                      id      |-> IF gotId /\ fr.kind # "INIT" THEN fr.id ELSE 0,
                      h       |-> IF gotStr THEN fr.h ELSE <<>>,
                      len     |-> IF gotAll THEN fr.len ELSE 0,
                      attrNil |-> ~gotAll,
                      order   |-> 0],
             err |-> IF ~gotAll THEN errShortPacket
                     ELSE IF fr.kind = "EXTENDED"
                             /\ fr.h \notin {posixRenameExt, statvfsExt}
                          THEN errUnknownExtendedPacket
                          ELSE ErrNil]
\* makePacket: the packet object and the decode error.  On a decode error the
\* fields taken before the failure are set and the rest keep their zero value.
makePacket(fr) ==
    IF fr.kind \notin KnownKinds
    THEN [pkt |-> NilPkt, err |-> errUnknownType]
    ELSE LET gotId  == fr.short # "id"
             gotStr == fr.short \in {"no", "tail"}
             gotAll == fr.short = "no"
         IN [pkt |-> [kind    |-> fr.kind,
                      id      |-> IF gotId /\ fr.kind # "INIT" THEN fr.id ELSE 0,
                      h       |-> IF gotStr THEN fr.h ELSE <<>>,
                      len     |-> IF gotAll THEN fr.len ELSE 0,
                      attrNil |-> ~gotAll,
                      order   |-> 0],
             err |-> IF gotAll THEN ErrNil ELSE errShortPacket]

NoPkt == [NilPkt EXCEPT !.kind = "none"]
NoReply == [type |-> "none", id |-> 0, code |-> 0, n |-> 0, h |-> <<>>, order |-> 0]

\* a clamp that does not limit: C9 has to fail against it
clamp_unlimited(v, max) == v
clamp(v, max) == IF v > max THEN max ELSE v

(***************************************************************************)
(* Handle registry.                                                        *)
(***************************************************************************)
RECURSIVE FormatBase36(_)
\* strconv.FormatUint(n, 36) as the sequence of its base-36 digits
FormatBase36(n) ==
    IF n < 0
    THEN \* n stands for n + 2^32, and 2^32 = 36 * 119304647 + 4
         FormatBase36(119304647 + ((n + 4) \div 36)) \o <<(n + 4) % 36>>
    ELSE IF n < 36 THEN <<n>>
    ELSE FormatBase36(n \div 36) \o <<n % 36>>

\* nextHandle: the incremented counter and the handle minted from it
nextHandle(ctr) == [ctr |-> u32Inc(ctr), handle |-> FormatBase36(u32Inc(ctr))]

MapPut(m, k, v) == [x \in DOMAIN m \cup {k} |-> IF x = k THEN v ELSE m[x]]
MapDel(m, k) == [x \in DOMAIN m \ {k} |-> m[x]]
EmptyMap == [x \in {} |-> 0]

\* getFile / getDir: the resource registered under the handle, 0 if none
getFile(files, h) == IF h \in DOMAIN files THEN files[h] ELSE 0
\* a getDir that falls back to the table of open files
getDir_eitherTable(dirs, h) ==
    IF h \in DOMAIN dirs THEN dirs[h]
    ELSE IF h \in DOMAIN openFiles THEN openFiles[h] ELSE 0
getDir(dirs, h) == IF h \in DOMAIN dirs THEN dirs[h] ELSE 0

\* a resource the handler returned from OpenFile / OpenDir
NewRes(kind, closer, left) ==
    [kind |-> kind, closer |-> closer, closes |-> 0, left |-> left,
     size |-> left, served |-> 0, handle |-> <<>>]

\* the resource, with the handle it is registered under noted on it
under(r, h) == [r EXCEPT !.handle = h]


(***************************************************************************)
(* The handler's side of the FileHandle / DirReader contracts.  An outcome *)
(* o is what the handler call made for one request returns:                *)
(*   o.err     the error of OpenFile, OpenDir, WriteAt, Close, Stat, ...   *)
(*   o.n       the byte count of ReadAt                                    *)
(*   o.closer  whether the DirReader from OpenDir is an io.Closer          *)
(*   o.size    the number of entries of the directory OpenDir opened       *)
(*   o.abs     whether the cleaned path of a REALPATH is absolute          *)
(***************************************************************************)
Outcome(err, n, closer, size, abs) ==
    [err |-> err, n |-> n, closer |-> closer, size |-> size, abs |-> abs]

OkOutcome == Outcome(ErrNil, 0, FALSE, 0, FALSE)

\* DirReader.ReadEntries into a buffer of m entries, for a directory with
\* left entries not yet returned: copies as many as fit, and reports a
\* non-nil error when it copied fewer than m, io.EOF when none are left.
ReadEntries(left, m, o) ==
    IF o.err.class # "nil"
    THEN [n |-> 0, err |-> o.err, left |-> left]
    ELSE LET n == Min(left, m)
         IN [n |-> n, err |-> IF n < m THEN ioEOF ELSE ErrNil, left |-> left - n]

Call(op, r, arg) == [op |-> op, r |-> r, arg |-> arg]

\* result of one iteration of packetWorker that changes no server state
PW(rp, calls) ==
    [rp |-> rp, files |-> openFiles, dirs |-> openDirs, ctr |-> handleCtr,
     res |-> res, calls |-> calls, panic |-> FALSE]

PWPanic == [PW(NoReply, {}) EXCEPT !.panic = TRUE]

\* closeHandle, except that a handle in neither table is answered OK
closeHandle_lenient(pkt, o) ==
    IF pkt.h \in DOMAIN openFiles
    THEN LET r == openFiles[pkt.h]
         IN [PW(statusFromError(pkt, o.err), {Call("Close", r, 0)})
               EXCEPT !.files = MapDel(openFiles, pkt.h),
                      !.res = [res EXCEPT ![r].closes = @ + 1]]
    ELSE IF pkt.h \in DOMAIN openDirs
    THEN LET r == openDirs[pkt.h]
         IN [PW(statusFromError(pkt, o.err), {Call("Close", r, 0)})
               EXCEPT !.dirs = MapDel(openDirs, pkt.h),
                      !.res = [res EXCEPT ![r].closes = @ + 1]]
    ELSE PW(statusFromError(pkt, ErrNil), {})

\* closeFile then, on errNoSuchHandle, closeDir
closeHandle(pkt, o) ==
    IF pkt.h \in DOMAIN openFiles
    THEN LET r == openFiles[pkt.h]
         IN [PW(statusFromError(pkt, o.err), {Call("Close", r, 0)})
               EXCEPT !.files = MapDel(openFiles, pkt.h),
                      !.res = [res EXCEPT ![r].closes = @ + 1]]
    ELSE IF pkt.h \in DOMAIN openDirs
    THEN LET r == openDirs[pkt.h]
         IN IF res[r].closer
            THEN [PW(statusFromError(pkt, o.err), {Call("Close", r, 0)})
                    EXCEPT !.dirs = MapDel(openDirs, pkt.h),
                           !.res = [res EXCEPT ![r].closes = @ + 1]]
            ELSE [PW(statusFromError(pkt, ErrNil), {})
                    EXCEPT !.dirs = MapDel(openDirs, pkt.h)]
    ELSE PW(statusFromError(pkt, errNoSuchHandle), {})

\* the READ case: f is the resource getFile returned (0: errNoSuchHandle)
readFile(pkt, f, o) ==
    IF f = 0
    THEN PW(statusFromError(pkt, errNoSuchHandle), {})
    ELSE LET buflen == clamp(pkt.len, maxReadWriteSize)
             calls  == {Call("ReadAt", f, buflen)}
         IN IF o.err.class # "nil" /\ (o.err.class # "io.EOF" \/ o.n = 0)
            THEN PW(statusFromError(pkt, o.err), calls)
            ELSE PW(Reply("DATA", pkt.id, 0, o.n, <<>>), calls)

\* a READDIR case whose buffer has room for one entry more than
\* MaxReaddirItems: C10 has to fail against it
readDir_roomier(pkt, o) ==
    LET d == getDir(openDirs, pkt.h)
    IN IF d = 0
       THEN PW(statusFromError(pkt, errNoSuchHandle), {})
       ELSE LET rd == ReadEntries(res[d].left, MaxReaddirItems + 1, o)
                calls == {Call("ReadEntries", d, MaxReaddirItems + 1)}
            IN IF rd.n > 0
               THEN [PW(Reply("NAME", pkt.id, 0, rd.n, <<>>), calls)
                       EXCEPT !.res = [res EXCEPT ![d].left = rd.left,
                                                  ![d].served = @ + rd.n]]
               ELSE [PW(statusFromError(pkt, rd.err), calls)
                       EXCEPT !.res = [res EXCEPT ![d].left = rd.left]]

\* the READDIR case
readDir(pkt, o) ==
    LET d == getDir(openDirs, pkt.h)
    IN IF d = 0
       THEN PW(statusFromError(pkt, errNoSuchHandle), {})
       ELSE LET rd == ReadEntries(res[d].left, MaxReaddirItems, o)
                calls == {Call("ReadEntries", d, MaxReaddirItems)}
            IN IF rd.n > 0
               THEN [PW(Reply("NAME", pkt.id, 0, rd.n, <<>>), calls)
                       EXCEPT !.res = [res EXCEPT ![d].left = rd.left,
                                                  ![d].served = @ + rd.n]]
               ELSE [PW(statusFromError(pkt, rd.err), calls)
                       EXCEPT !.res = [res EXCEPT ![d].left = rd.left]]

\* the OPEN and OPENDIR cases
openFile(pkt, o) ==
    IF pkt.attrNil
    THEN PWPanic   \* pkt.Attr.Perms on the nil Attr of a short packet
    ELSE IF o.err.class # "nil"
    THEN PW(statusFromError(pkt, o.err), {Call("OpenFile", 0, 0)})
    ELSE LET nh == nextHandle(handleCtr)
             r  == Len(res) + 1
         IN [PW(Reply("HANDLE", pkt.id, 0, 0, nh.handle), {Call("OpenFile", r, 0)})
               EXCEPT !.files = MapPut(openFiles, nh.handle, r),
                      !.ctr = nh.ctr,
                      !.res = Append(res, under(NewRes("file", TRUE, 0),
                                                nh.handle))]

openDir(pkt, o) ==
    IF o.err.class # "nil"
    THEN PW(statusFromError(pkt, o.err), {Call("OpenDir", 0, 0)})
    ELSE LET nh == nextHandle(handleCtr)
             r  == Len(res) + 1
         IN [PW(Reply("HANDLE", pkt.id, 0, 0, nh.handle), {Call("OpenDir", r, 0)})
               EXCEPT !.dirs = MapPut(openDirs, nh.handle, r),
                      !.ctr = nh.ctr,
                      !.res = Append(res, under(NewRes("dir", o.closer, o.size),
                                                nh.handle))]

\* one iteration of packetWorker's loop, up to the readyPacket call
packetWorker(pkt, f, o) ==
    CASE pkt.kind = "INIT" ->
            PW(Reply("VERSION", 0, 0, ProtocolVersion, <<>>), {})
      [] pkt.kind = "OPEN" -> openFile(pkt, o)
      [] pkt.kind = "CLOSE" -> closeHandle(pkt, o)
      [] pkt.kind = "READ" -> readFile(pkt, f, o)
      [] pkt.kind = "WRITE" ->
            IF f = 0
            THEN PW(statusFromError(pkt, errNoSuchHandle), {})
            ELSE PW(statusFromError(pkt, o.err), {Call("WriteAt", f, 0)})
      [] pkt.kind \in {"STAT", "LSTAT"} ->
            IF o.err.class # "nil"
            THEN PW(statusFromError(pkt, o.err), {Call(pkt.kind, 0, 0)})
            ELSE PW(Reply("ATTRS", pkt.id, 0, 0, <<>>), {Call(pkt.kind, 0, 0)})
      [] pkt.kind = "FSTAT" ->
            IF getFile(openFiles, pkt.h) = 0
            THEN PW(statusFromError(pkt, errNoSuchHandle), {})
            ELSE PW(Reply("ATTRS", pkt.id, 0, o.n, <<>>), {})   \* o.n: f.Size()
      [] pkt.kind = "FSETSTAT" ->
            IF getFile(openFiles, pkt.h) = 0
            THEN PW(statusFromError(pkt, errNoSuchHandle), {})
            ELSE PW(statusFromError(pkt, o.err),
                    {Call("Setstat", getFile(openFiles, pkt.h), 0)})
      [] pkt.kind = "OPENDIR" -> openDir(pkt, o)
      [] pkt.kind = "READDIR" -> readDir(pkt, o)
      [] pkt.kind \in {"SETSTAT", "REMOVE", "MKDIR", "RMDIR", "RENAME", "SYMLINK"} ->
            PW(statusFromError(pkt, o.err), {Call(pkt.kind, 0, 0)})
      [] pkt.kind = "REALPATH" ->
            IF o.abs
            THEN PW(Reply("NAME", pkt.id, 0, 1, <<>>), {})
            ELSE IF o.err.class # "nil"
            THEN PW(statusFromError(pkt, o.err), {Call("RealPath", 0, 0)})
            ELSE PW(Reply("NAME", pkt.id, 0, 1, <<>>), {Call("RealPath", 0, 0)})
      [] pkt.kind = "READLINK" ->
            IF o.err.class # "nil"
            THEN PW(statusFromError(pkt, o.err), {Call("ReadLink", 0, 0)})
            ELSE PW(Reply("NAME", pkt.id, 0, 1, <<>>), {Call("ReadLink", 0, 0)})
      [] pkt.kind = "nil" -> PWPanic   \* p.id() on the nil interface
      [] OTHER -> PW(statusFromError(pkt, ErrOpUnsupported), {})


(***************************************************************************)
(* Packet manager: ordering of the incoming and outgoing lists.            *)
(***************************************************************************)
RECURSIVE sortPackets(_)
\* sort.Slice by orderID (insertion of each element into the sorted rest)
sortPackets(s) ==
    IF Len(s) <= 1 THEN s
    ELSE LET rest == sortPackets(Tail(s))
             x    == Head(s)
             lo   == SelectSeq(rest, LAMBDA y : u32Less(y.order, x.order))
             hi   == SelectSeq(rest, LAMBDA y : ~u32Less(y.order, x.order))
         IN lo \o <<x>> \o hi

\* newOrderedRequest: the packet tagged with the next value of the counter
newOrderedRequest(pkt, ctr) == [pkt EXCEPT !.order = u32Inc(ctr)]

\* loop condition of sendReadyPackets: both lists non-empty and their heads
\* carry the same order id
readyToSend(in, out) ==
    /\ Len(in) > 0
    /\ Len(out) > 0
    /\ Head(in).order = Head(out).order

(***************************************************************************)
(* Wire codec.  A byte string is a sequence of numbers in 0..255; a uint64 *)
(* is a record [hi, lo] of its two 32-bit halves; attribute flags are the  *)
(* set of the names of the bits that are set.                              *)
(***************************************************************************)
fxpInit == 1
fxpVersion == 2
fxpOpen == 3
fxpClose == 4
fxpRead == 5
fxpWrite == 6
fxpLstat == 7
fxpFstat == 8
fxpSetstat == 9
fxpFsetstat == 10
fxpOpendir == 11
fxpReaddir == 12
fxpRemove == 13
fxpMkdir == 14
fxpRmdir == 15
fxpRealpath == 16
fxpStat == 17
fxpRename == 18
fxpReadlink == 19
fxpSymlink == 20
fxpStatus == 101
fxpHandle == 102
fxpData == 103
fxpName == 104
fxpAttrs == 105
fxpExtended == 200
fxpExtendedReply == 201

\* the packets that are a uint32 id and one string, and their type bytes
IdStringTypes ==
    [CLOSE |-> fxpClose, REMOVE |-> fxpRemove, RMDIR |-> fxpRmdir,
     OPENDIR |-> fxpOpendir, READDIR |-> fxpReaddir, STAT |-> fxpStat,
     LSTAT |-> fxpLstat, FSTAT |-> fxpFstat, READLINK |-> fxpReadlink,
     REALPATH |-> fxpRealpath]
\* the packets that are a uint32 id, one string and a FileAttr
IdStringAttrTypes ==
    [MKDIR |-> fxpMkdir, SETSTAT |-> fxpSetstat, FSETSTAT |-> fxpFsetstat]

\* an appendU32 that writes the least significant byte first
appendU32_little(b, v) ==
    b \o <<v % 256, (v \div 256) % 256, (v \div 65536) % 256,
           (v \div 16777216) % 256>>
appendU32(b, v) ==
    b \o <<(v \div 16777216) % 256, (v \div 65536) % 256,
           (v \div 256) % 256, v % 256>>

\* a uint64 as its two 32-bit halves
U64(hi, lo) == [hi |-> hi, lo |-> lo]

appendU64(b, v) == appendU32(appendU32(b, v.hi), v.lo)

appendStr(b, v) == appendU32(b, Len(v)) \o v

\* allocPkt: the length prefix dataLen+1 followed by the type byte
allocPkt(pktType, dataLen) == Append(appendU32(<<>>, dataLen + 1), pktType)

\* takeU32: big-endian value of the first four bytes, and the rest
takeU32(b) ==
    IF Len(b) >= 4
    THEN [v    |-> u32(b[1] * 256 + b[2], b[3] * 256 + b[4]),
          rest |-> SubSeq(b, 5, Len(b)),
          err  |-> ErrNil]
    ELSE [v |-> 0, rest |-> <<>>, err |-> errShortPacket]

takeU64(b) ==
    IF Len(b) >= 8
    THEN [v    |-> U64(takeU32(b).v, takeU32(SubSeq(b, 5, Len(b))).v),
          rest |-> SubSeq(b, 9, Len(b)),
          err  |-> ErrNil]
    ELSE [v |-> U64(0, 0), rest |-> <<>>, err |-> errShortPacket]

\* takeStr: int64(n) > int64(len(b)) compares n as the unsigned value it is
takeStr(b) ==
    LET n == takeU32(b)
    IN IF n.err # ErrNil
       THEN [v |-> <<>>, rest |-> <<>>, err |-> n.err]
       ELSE IF n.v < 0 \/ n.v > Len(n.rest)
       THEN [v |-> <<>>, rest |-> <<>>, err |-> errShortPacket]
       ELSE [v    |-> SubSeq(n.rest, 1, n.v),
             rest |-> SubSeq(n.rest, n.v + 1, Len(n.rest)),
             err  |-> ErrNil]

\* a time.Time: seconds since the epoch and the nanoseconds within the
\* second; zero marks the zero value time.Time{}
timeUnix(sec, nsec) == [zero |-> FALSE, sec |-> sec, nsec |-> nsec]
ZeroTime == [zero |-> TRUE, sec |-> 0, nsec |-> 0]
\* uint32(t.Unix())
Unix(t) == t.sec

\* the four bytes appendU32 writes for uint32(flags)
flagsU32(flags) ==
    <<IF "Extended" \in flags THEN 128 ELSE 0, 0, 0,
      (IF "Size" \in flags THEN 1 ELSE 0)
      + (IF "UIDGID" \in flags THEN 2 ELSE 0)
      + (IF "Permissions" \in flags THEN 4 ELSE 0)
      + (IF "AcModTime" \in flags THEN 8 ELSE 0)>>

\* fromFileMode: os.FileMode (its mode bits by name, and the permission
\* bits) to the SFTP mode word.  The S_IF* values are or-ed into bits 12..15
\* of the result; typeBits is the set of those bits that end up set.
fromFileMode(mode) ==
    LET has(m) == m \in mode.bits
        typeBits ==
            (IF has("ModeDevice")
             THEN (IF has("ModeCharDevice") THEN {13} ELSE {13, 14}) ELSE {})
            \cup (IF has("ModeDir") THEN {14} ELSE {})
            \cup (IF has("ModeSymlink") THEN {13, 15} ELSE {})
            \cup (IF has("ModeNamedPipe") THEN {12} ELSE {})
            \cup (IF has("ModeSocket") THEN {14, 15} ELSE {})
            \cup (IF mode.bits \cap {"ModeDir", "ModeSymlink", "ModeNamedPipe",
                                     "ModeSocket", "ModeDevice",
                                     "ModeCharDevice", "ModeIrregular"} = {}
                  THEN {15} ELSE {})
        bit(i) == IF i \in typeBits THEN 2^i ELSE 0
    IN bit(12) + bit(13) + bit(14) + bit(15)
       + (IF has("ModeSetgid") THEN 1024 ELSE 0)
       + (IF has("ModeSetuid") THEN 2048 ELSE 0)
       + (IF has("ModeSticky") THEN 512 ELSE 0)
       + mode.perm

RECURSIVE extensionsSize(_)
extensionsSize(exts) ==
    IF exts = <<>> THEN 0
    ELSE 8 + Len(Head(exts).Name) + Len(Head(exts).Data)
           + extensionsSize(Tail(exts))

\* FileAttr.encodedSize
encodedSize(attr) ==
    4 + (IF "Size" \in attr.Flags THEN 8 ELSE 0)
      + (IF "UIDGID" \in attr.Flags THEN 8 ELSE 0)
      + (IF "Permissions" \in attr.Flags THEN 4 ELSE 0)
      + (IF "AcModTime" \in attr.Flags THEN 8 ELSE 0)
      + (IF "Extended" \in attr.Flags
         THEN 4 + extensionsSize(attr.Extensions) ELSE 0)

RECURSIVE appendExtensions(_, _)
appendExtensions(b, exts) ==
    IF exts = <<>> THEN b
    ELSE appendExtensions(appendStr(appendStr(b, Head(exts).Name),
                                    Head(exts).Data), Tail(exts))

appendAttr(b, attr) ==
    LET b0 == b \o flagsU32(attr.Flags)
        b1 == IF "Size" \in attr.Flags THEN appendU64(b0, attr.Size) ELSE b0
        b2 == IF "UIDGID" \in attr.Flags
              THEN appendU32(appendU32(b1, attr.UID), attr.GID) ELSE b1
        b3 == IF "Permissions" \in attr.Flags
              THEN appendU32(b2, fromFileMode(attr.Perms)) ELSE b2
        b4 == IF "AcModTime" \in attr.Flags
              THEN appendU32(appendU32(b3, Unix(attr.AcTime)),
                             Unix(attr.ModTime)) ELSE b3
    IN IF "Extended" \in attr.Flags
       THEN appendExtensions(appendU32(b4, Len(attr.Extensions)),
                             attr.Extensions)
       ELSE b4

\* attrFlag(flag): the flag bits that are set, by name; Other stands for
\* any of the bits 4..30
flagNames(w) ==
    (IF w % 2 = 1 THEN {"Size"} ELSE {})
    \cup (IF (w \div 2) % 2 = 1 THEN {"UIDGID"} ELSE {})
    \cup (IF (w \div 4) % 2 = 1 THEN {"Permissions"} ELSE {})
    \cup (IF (w \div 8) % 2 = 1 THEN {"AcModTime"} ELSE {})
    \cup (IF w < 0 THEN {"Extended"} ELSE {})
    \cup (IF (w \div 16) % 134217728 # 0 THEN {"Other"} ELSE {})

\* toFileMode: the SFTP mode word to os.FileMode
toFileMode(mode) ==
    LET fmt == (mode \div 4096) % 16
        type == CASE fmt = 6 -> {"ModeDevice"}
                  [] fmt = 2 -> {"ModeDevice", "ModeCharDevice"}
                  [] fmt = 4 -> {"ModeDir"}
                  [] fmt = 1 -> {"ModeNamedPipe"}
                  [] fmt = 10 -> {"ModeSymlink"}
                  [] fmt = 12 -> {"ModeSocket"}
                  [] OTHER -> {}
    IN [bits |-> type
                 \cup (IF (mode \div 1024) % 2 = 1 THEN {"ModeSetgid"} ELSE {})
                 \cup (IF (mode \div 2048) % 2 = 1 THEN {"ModeSetuid"} ELSE {})
                 \cup (IF (mode \div 512) % 2 = 1 THEN {"ModeSticky"} ELSE {}),
        perm |-> mode % 512]

\* the zero value of FileAttr
ZeroAttr ==
    [Flags |-> {}, Size |-> U64(0, 0), UID |-> 0, GID |-> 0,
     Perms |-> [bits |-> {}, perm |-> 0],
     AcTime |-> ZeroTime, ModTime |-> ZeroTime, Extensions |-> <<>>]

\* what a take function returns: the value, the rest of the bytes, the
\* error, and whether it panicked instead of returning
Taken(v, rest, err) == [v |-> v, rest |-> rest, err |-> err, panic |-> FALSE]

\* the next field is taken from what the previous take left, unless that
\* one failed: then the function has returned and the field keeps zero
andThen(prev, take(_), zero) ==
    CHOOSE r \in {IF p.err = ErrNil /\ ~p.panic
                  THEN take(p.rest)
                  ELSE [v |-> zero, rest |-> <<>>, err |-> p.err,
                        panic |-> p.panic] : p \in {prev}} : TRUE

takeU32p(b) == CHOOSE r \in {Taken(t.v, t.rest, t.err) : t \in {takeU32(b)}} : TRUE
takeU64p(b) == CHOOSE r \in {Taken(t.v, t.rest, t.err) : t \in {takeU64(b)}} : TRUE
takeStrp(b) == CHOOSE r \in {Taken(t.v, t.rest, t.err) : t \in {takeStr(b)}} : TRUE

\* i + 1 < count, i and count being uint32
u32Dec(v) == IF v = (0 - 2147483647) - 1 THEN 2147483647 ELSE v - 1

RECURSIVE takeExtensions(_, _)
\* the loop of takeAttr over the count extensions still to take
takeExtensions(b, count) ==
    IF count = 0 THEN Taken(<<>>, b, ErrNil)
    ELSE LET name == takeStrp(b)
             data == andThen(name, takeStrp, <<>>)
         IN IF data.err # ErrNil
            THEN Taken(<<>>, <<>>, data.err)
            ELSE LET more == takeExtensions(data.rest, u32Dec(count))
                 IN IF more.err # ErrNil THEN more
                    ELSE Taken(<<[Name |-> name.v, Data |-> data.v]>> \o more.v,
                               more.rest, ErrNil)

\* make([]T, count) for a count taken from the input.  A count of 2^31 or
\* more (negative here) is above the largest int of a 32-bit build, where
\* make panics, and asks a 64-bit build for 64 GiB or more, which the
\* runtime either provides (allocOk) or dies on.
makeFails(count, allocOk) == count < 0 /\ ~allocOk

\* the value of v under the name x in f(x), computed once
With(v, f(_)) == CHOOSE r \in {f(x) : x \in {v}} : TRUE

\* the attr with the value taken for one of its fields stored
attrPut(a, field, v) ==
    CASE field = "Size" -> [a EXCEPT !.Size = v]
      [] field = "UID" -> [a EXCEPT !.UID = v]
      [] field = "GID" -> [a EXCEPT !.GID = v]
      [] field = "Perms" -> [a EXCEPT !.Perms = toFileMode(v)]
      [] field = "AcTime" -> [a EXCEPT !.AcTime = timeUnix(v, 0)]
      [] field = "ModTime" -> [a EXCEPT !.ModTime = timeUnix(v, 0)]

\* one field of takeAttr: taken only if its flag is set and no earlier
\* take has failed; s holds the attr so far, the bytes left and the error
attrField(s, flag, field) ==
    IF flag \notin s.v.Flags \/ s.err # ErrNil THEN s
    ELSE CHOOSE r \in
             {IF t.err # ErrNil THEN [s EXCEPT !.err = t.err]
              ELSE [s EXCEPT !.v = attrPut(s.v, field, t.v), !.rest = t.rest] :
                 t \in {IF field = "Size" THEN takeU64p(s.rest)
                        ELSE takeU32p(s.rest)}} : TRUE

\* the extended part of takeAttr: the count, make, and the loop
attrExtended(s, flagSet, allocOk) ==
    IF ~flagSet \/ s.err # ErrNil THEN s
    ELSE With(takeU32p(s.rest), LAMBDA count :
             IF count.err # ErrNil THEN [s EXCEPT !.err = count.err]
             ELSE IF makeFails(count.v, allocOk) THEN [s EXCEPT !.panic = TRUE]
             ELSE With(takeExtensions(count.rest, count.v), LAMBDA exts :
                      IF exts.err # ErrNil THEN [s EXCEPT !.err = exts.err]
                      ELSE [s EXCEPT !.v.Extensions = exts.v,
                                     !.rest = exts.rest]))

\* takeAttr.  On an error the results are the zero values (the named
\* results of the bare return): a nil *FileAttr and a nil slice.
takeAttr(b, allocOk) ==
    With(takeU32p(b), LAMBDA fl :
        LET names == flagNames(fl.v)
            s0 == [fl EXCEPT !.v = [ZeroAttr EXCEPT !.Flags = names]]
            s1 == attrField(s0, "Size", "Size")
            s2 == attrField(s1, "UIDGID", "UID")
            s3 == attrField(s2, "UIDGID", "GID")
            s4 == attrField(s3, "Permissions", "Perms")
            s5 == attrField(s4, "AcModTime", "AcTime")
            s6 == attrField(s5, "AcModTime", "ModTime")
        IN With(attrExtended(s6, "Extended" \in names, allocOk), LAMBDA s :
               IF s.panic \/ s.err # ErrNil
               THEN [s EXCEPT !.v = ZeroAttr, !.rest = <<>>]
               ELSE s))

marshalIDString(pktType, id, str) ==
    appendStr(appendU32(allocPkt(pktType, 4 + (4 + Len(str))), id), str)

fxpVersionPkt_MarshalBinary(p) ==
    appendExtensions(
        appendU32(allocPkt(fxpVersion, 4 + extensionsSize(p.Extensions)),
                  p.Version),
        p.Extensions)

fxpStatusPkt_MarshalBinary(p) ==
    appendStr(appendStr(appendU32(appendU32(
        allocPkt(fxpStatus, 4 + 4 + (4 + Len(p.msg)) + (4 + Len(p.lang))),
        p.ID), p.Code), p.msg), p.lang)

fxpHandlePkt_MarshalBinary(p) == marshalIDString(fxpHandle, p.ID, p.Handle)

fxpDataPkt_MarshalBinary(p) ==
    appendU32(appendU32(allocPkt(fxpData, 4 + (4 + Len(p.Data))), p.ID),
              Len(p.Data)) \o p.Data

RECURSIVE nameItemsSize(_)
\* the loop of fxpNamePkt.MarshalBinary that adds up dataLen
nameItemsSize(items) ==
    IF items = <<>> THEN 0
    ELSE (4 + Len(Head(items).Name)) + (4 + Len(Head(items).LongName))
         + encodedSize(Head(items).Attr) + nameItemsSize(Tail(items))

RECURSIVE appendNameItems(_, _)
appendNameItems(b, items) ==
    IF items = <<>> THEN b
    ELSE appendNameItems(
            appendAttr(appendStr(appendStr(b, Head(items).Name),
                                 Head(items).LongName), Head(items).Attr),
            Tail(items))

\* dataLen starts at 4 (the id); the item count written after the id is
\* not added to it
fxpNamePkt_MarshalBinary(p) ==
    appendNameItems(
        appendU32(appendU32(allocPkt(fxpName, 4 + nameItemsSize(p.Items)),
                            p.ID), Len(p.Items)),
        p.Items)

fxpAttrPkt_MarshalBinary(p) ==
    appendAttr(appendU32(allocPkt(fxpAttrs, 4 + encodedSize(p.Attr)), p.ID),
               p.Attr)

RECURSIVE appendU64s(_, _)
appendU64s(b, vs) ==
    IF vs = <<>> THEN b ELSE appendU64s(appendU64(b, Head(vs)), Tail(vs))

\* the eleven uint64 fields of StatVFS, in the order they are written
fxpExtVfsPkt_MarshalBinary(p) ==
    appendU64s(appendU32(allocPkt(fxpExtendedReply, 4 + (11 * 8)), p.ID),
               p.StatVFS)

marshalIDStringAttr(pktType, id, str, attr) ==
    appendAttr(appendStr(appendU32(
        allocPkt(pktType, 4 + (4 + Len(str)) + encodedSize(attr)), id), str),
        attr)

fxpInitPkt_MarshalBinary(p) ==
    appendExtensions(
        appendU32(allocPkt(fxpInit, 4 + extensionsSize(p.Extensions)),
                  p.Version),
        p.Extensions)

fxpOpenPkt_MarshalBinary(p) ==
    appendAttr(appendU32(appendStr(appendU32(
        allocPkt(fxpOpen, 4 + (4 + Len(p.Path)) + 4 + encodedSize(p.Attr)),
        p.ID), p.Path), p.PFlags), p.Attr)

fxpReadPkt_MarshalBinary(p) ==
    appendU32(appendU64(appendStr(appendU32(
        allocPkt(fxpRead, 4 + (4 + Len(p.Handle)) + 8 + 4),
        p.ID), p.Handle), p.Offset), p.Len)

fxpWritePkt_MarshalBinary(p) ==
    appendU32(appendU64(appendStr(appendU32(
        allocPkt(fxpWrite, 4 + (4 + Len(p.Handle)) + 8 + (4 + Len(p.Data))),
        p.ID), p.Handle), p.Offset), Len(p.Data)) \o p.Data

fxpRenamePkt_MarshalBinary(p) ==
    appendStr(appendStr(appendU32(
        allocPkt(fxpRename, 4 + (4 + Len(p.OldPath)) + (4 + Len(p.NewPath))),
        p.ID), p.OldPath), p.NewPath)

\* link first when FollowSpec is set, target first otherwise
fxpSymlinkPkt_MarshalBinary(p) ==
    LET b == appendU32(
                allocPkt(fxpSymlink,
                         4 + (4 + Len(p.LinkPath)) + (4 + Len(p.TargetPath))),
                p.ID)
    IN IF p.FollowSpec
       THEN appendStr(appendStr(b, p.LinkPath), p.TargetPath)
       ELSE appendStr(appendStr(b, p.TargetPath), p.LinkPath)

fxpExtPosixRenamePkt_MarshalBinary(p) ==
    appendStr(appendStr(appendStr(appendU32(
        allocPkt(fxpExtended,
                 4 + (4 + Len(posixRenameExt)) + (4 + Len(p.OldPath))
                   + (4 + Len(p.NewPath))),
        p.ID), posixRenameExt), p.OldPath), p.NewPath)

fxpExtStatvfsPkt_MarshalBinary(p) ==
    appendStr(appendStr(appendU32(
        allocPkt(fxpExtended, 4 + (4 + Len(statvfsExt)) + (4 + Len(p.Path))),
        p.ID), statvfsExt), p.Path)

\* pkt.MarshalBinary()
MarshalBinary(p) ==
    CASE p.t = "VERSION" -> fxpVersionPkt_MarshalBinary(p)
      [] p.t = "INIT" -> fxpInitPkt_MarshalBinary(p)
      [] p.t = "OPEN" -> fxpOpenPkt_MarshalBinary(p)
      [] p.t = "READ" -> fxpReadPkt_MarshalBinary(p)
      [] p.t = "WRITE" -> fxpWritePkt_MarshalBinary(p)
      [] p.t = "RENAME" -> fxpRenamePkt_MarshalBinary(p)
      [] p.t = "SYMLINK" -> fxpSymlinkPkt_MarshalBinary(p)
      [] p.t = "EXT_POSIX_RENAME" -> fxpExtPosixRenamePkt_MarshalBinary(p)
      [] p.t = "EXT_STATVFS" -> fxpExtStatvfsPkt_MarshalBinary(p)
      [] p.t \in DOMAIN IdStringTypes ->
            marshalIDString(IdStringTypes[p.t], p.ID, p.Path)
      [] p.t \in DOMAIN IdStringAttrTypes ->
            marshalIDStringAttr(IdStringAttrTypes[p.t], p.ID, p.Path, p.Attr)
      [] p.t = "STATUS" -> fxpStatusPkt_MarshalBinary(p)
      [] p.t = "HANDLE" -> fxpHandlePkt_MarshalBinary(p)
      [] p.t = "DATA" -> fxpDataPkt_MarshalBinary(p)
      [] p.t = "NAME" -> fxpNamePkt_MarshalBinary(p)
      [] p.t = "ATTRS" -> fxpAttrPkt_MarshalBinary(p)
      [] p.t = "EXTENDED_REPLY" -> fxpExtVfsPkt_MarshalBinary(p)

\* what UnmarshalBinary leaves behind: the packet and the error returned
Unmarshalled(pkt, last) == [pkt |-> pkt, err |-> last.err, panic |-> last.panic]

unmarshalIDString(t, b) ==
    LET id  == takeU32p(b)
        str == andThen(id, takeStrp, <<>>)
    IN Unmarshalled([t |-> t, ID |-> id.v, Path |-> str.v], str)

unmarshalIDStringAttr(t, b, allocOk) ==
    LET id   == takeU32p(b)
        str  == andThen(id, takeStrp, <<>>)
        take(x) == takeAttr(x, allocOk)
        attr == andThen(str, take, ZeroAttr)
    IN Unmarshalled([t |-> t, ID |-> id.v, Path |-> str.v, Attr |-> attr.v],
                    attr)

RECURSIVE takeExtensionPairs(_)
\* the loop "for len(b) > 0" of fxpInitPkt / fxpVersionPkt.UnmarshalBinary
takeExtensionPairs(b) ==
    IF Len(b) = 0 THEN Taken(<<>>, b, ErrNil)
    ELSE LET name == takeStrp(b)
             data == andThen(name, takeStrp, <<>>)
         IN IF data.err # ErrNil
            THEN Taken(<<>>, <<>>, data.err)
            ELSE LET more == takeExtensionPairs(data.rest)
                 IN [more EXCEPT
                        !.v = <<[Name |-> name.v, Data |-> data.v]>> \o @]

fxpVersionPkt_UnmarshalBinary(t, b) ==
    LET ver  == takeU32p(b)
        exts == andThen(ver, takeExtensionPairs, <<>>)
    IN Unmarshalled([t |-> t, Version |-> ver.v, Extensions |-> exts.v], exts)

fxpOpenPkt_UnmarshalBinary(b, allocOk) ==
    LET id   == takeU32p(b)
        path == andThen(id, takeStrp, <<>>)
        pfl  == andThen(path, takeU32p, 0)
        take(x) == takeAttr(x, allocOk)
        attr == andThen(pfl, take, ZeroAttr)
    IN Unmarshalled([t |-> "OPEN", ID |-> id.v, Path |-> path.v,
                     PFlags |-> pfl.v, Attr |-> attr.v], attr)

fxpReadPkt_UnmarshalBinary(b) ==
    LET id  == takeU32p(b)
        h   == andThen(id, takeStrp, <<>>)
        off == andThen(h, takeU64p, U64(0, 0))
        len == andThen(off, takeU32p, 0)
    IN Unmarshalled([t |-> "READ", ID |-> id.v, Handle |-> h.v,
                     Offset |-> off.v, Len |-> len.v], len)

\* the data of a WRITE or DATA packet: uint32(len(b)) < dataLen
takeData(b) ==
    LET n == takeU32p(b)
    IN IF n.err # ErrNil THEN [n EXCEPT !.v = <<>>]
       ELSE IF n.v < 0 \/ Len(n.rest) < n.v
       THEN Taken(<<>>, <<>>, errShortPacket)
       ELSE Taken(SubSeq(n.rest, 1, n.v), <<>>, ErrNil)

fxpWritePkt_UnmarshalBinary(b) ==
    LET id   == takeU32p(b)
        h    == andThen(id, takeStrp, <<>>)
        off  == andThen(h, takeU64p, U64(0, 0))
        data == andThen(off, takeData, <<>>)
    IN Unmarshalled([t |-> "WRITE", ID |-> id.v, Handle |-> h.v,
                     Offset |-> off.v, Data |-> data.v], data)

fxpRenamePkt_UnmarshalBinary(b) ==
    LET id == takeU32p(b)
        op == andThen(id, takeStrp, <<>>)
        np == andThen(op, takeStrp, <<>>)
    IN Unmarshalled([t |-> "RENAME", ID |-> id.v, OldPath |-> op.v,
                     NewPath |-> np.v], np)

\* followSpec is the FollowSpec field of the packet UnmarshalBinary is
\* called on
fxpSymlinkPkt_UnmarshalBinary(followSpec, b) ==
    LET id     == takeU32p(b)
        first  == andThen(id, takeStrp, <<>>)
        second == andThen(first, takeStrp, <<>>)
    IN Unmarshalled([t |-> "SYMLINK", FollowSpec |-> followSpec, ID |-> id.v,
                     LinkPath |-> IF followSpec THEN first.v ELSE second.v,
                     TargetPath |-> IF followSpec THEN second.v ELSE first.v],
                    second)

\* the id is not in what these two read: it is set from the wrapper
fxpExtPosixRenamePkt_UnmarshalBinary(b) ==
    LET op == takeStrp(b)
        np == andThen(op, takeStrp, <<>>)
    IN Unmarshalled([t |-> "EXT_POSIX_RENAME", ID |-> 0, OldPath |-> op.v,
                     NewPath |-> np.v], np)

fxpExtStatvfsPkt_UnmarshalBinary(b) ==
    LET path == takeStrp(b)
    IN Unmarshalled([t |-> "EXT_STATVFS", ID |-> 0, Path |-> path.v], path)

fxpStatusPkt_UnmarshalBinary(b) ==
    LET id   == takeU32p(b)
        code == andThen(id, takeU32p, 0)
        msg  == andThen(code, takeStrp, <<>>)
        lang == andThen(msg, takeStrp, <<>>)
    IN Unmarshalled([t |-> "STATUS", ID |-> id.v, Code |-> code.v,
                     msg |-> msg.v, lang |-> lang.v], lang)

fxpHandlePkt_UnmarshalBinary(b) ==
    LET id == takeU32p(b)
        h  == andThen(id, takeStrp, <<>>)
    IN Unmarshalled([t |-> "HANDLE", ID |-> id.v, Handle |-> h.v], h)

fxpDataPkt_UnmarshalBinary(b) ==
    LET id   == takeU32p(b)
        data == andThen(id, takeData, <<>>)
    IN Unmarshalled([t |-> "DATA", ID |-> id.v, Data |-> data.v], data)

RECURSIVE takeNameItems(_, _, _)
\* the loop of fxpNamePkt.UnmarshalBinary over the count items still to take
takeNameItems(b, count, allocOk) ==
    IF count = 0 THEN Taken(<<>>, b, ErrNil)
    ELSE With(takeStrp(b), LAMBDA name :
         With(andThen(name, takeStrp, <<>>), LAMBDA long :
         With(andThen(long, LAMBDA x : takeAttr(x, allocOk), ZeroAttr),
              LAMBDA attr :
                 IF attr.err # ErrNil \/ attr.panic
                 THEN [attr EXCEPT !.v = <<>>]
                 ELSE With(takeNameItems(attr.rest, u32Dec(count), allocOk),
                           LAMBDA more :
                              [more EXCEPT
                                  !.v = <<[Name |-> name.v,
                                           LongName |-> long.v,
                                           Attr |-> attr.v]>> \o @]))))

fxpNamePkt_UnmarshalBinary(b, allocOk) ==
    LET id    == takeU32p(b)
        count == andThen(id, takeU32p, 0)
        items == IF count.err # ErrNil THEN [count EXCEPT !.v = <<>>]
                 ELSE IF makeFails(count.v, allocOk)
                 THEN [v |-> <<>>, rest |-> <<>>, err |-> ErrNil,
                       panic |-> TRUE]
                 ELSE takeNameItems(count.rest, count.v, allocOk)
    IN Unmarshalled([t |-> "NAME", ID |-> id.v, Items |-> items.v], items)

fxpAttrPkt_UnmarshalBinary(b, allocOk) ==
    LET id   == takeU32p(b)
        take(x) == takeAttr(x, allocOk)
        attr == andThen(id, take, ZeroAttr)
    IN Unmarshalled([t |-> "ATTRS", ID |-> id.v, Attr |-> attr.v], attr)

RECURSIVE takeU64s(_, _)
takeU64s(b, n) ==
    IF n = 0 THEN Taken(<<>>, b, ErrNil)
    ELSE LET v == takeU64p(b)
         IN IF v.err # ErrNil THEN Taken(<<v.v>>, <<>>, v.err)
            ELSE LET more == takeU64s(v.rest, n - 1)
                 IN [more EXCEPT !.v = <<v.v>> \o @]

\* the eleven uint64 fields, taken in the order they are written; a field
\* not reached keeps zero
fxpExtVfsPkt_UnmarshalBinary(b) ==
    LET id == takeU32p(b)
        take(x) == takeU64s(x, 11)
        vs == andThen(id, take, <<>>)
    IN Unmarshalled([t |-> "EXTENDED_REPLY", ID |-> id.v,
                     StatVFS |-> [k \in 1..11 |->
                                    IF k <= Len(vs.v) THEN vs.v[k]
                                    ELSE U64(0, 0)]], vs)

\* UnmarshalBinary(b) called on a new packet of the type of p, as
\* makePacket builds it (every field zero)
UnmarshalBinary(t, b, allocOk) ==
    CASE t = "VERSION" -> fxpVersionPkt_UnmarshalBinary(t, b)
      [] t = "INIT" -> fxpVersionPkt_UnmarshalBinary(t, b)
      [] t = "OPEN" -> fxpOpenPkt_UnmarshalBinary(b, allocOk)
      [] t = "READ" -> fxpReadPkt_UnmarshalBinary(b)
      [] t = "WRITE" -> fxpWritePkt_UnmarshalBinary(b)
      [] t = "RENAME" -> fxpRenamePkt_UnmarshalBinary(b)
      [] t = "SYMLINK" -> fxpSymlinkPkt_UnmarshalBinary(FALSE, b)
      [] t = "EXT_POSIX_RENAME" -> fxpExtPosixRenamePkt_UnmarshalBinary(b)
      [] t = "EXT_STATVFS" -> fxpExtStatvfsPkt_UnmarshalBinary(b)
      [] t \in DOMAIN IdStringTypes -> unmarshalIDString(t, b)
      [] t \in DOMAIN IdStringAttrTypes -> unmarshalIDStringAttr(t, b, allocOk)
      [] t = "STATUS" -> fxpStatusPkt_UnmarshalBinary(b)
      [] t = "HANDLE" -> fxpHandlePkt_UnmarshalBinary(b)
      [] t = "DATA" -> fxpDataPkt_UnmarshalBinary(b)
      [] t = "NAME" -> fxpNamePkt_UnmarshalBinary(b, allocOk)
      [] t = "ATTRS" -> fxpAttrPkt_UnmarshalBinary(b, allocOk)
      [] t = "EXTENDED_REPLY" -> fxpExtVfsPkt_UnmarshalBinary(b)

(***************************************************************************)
(* Initial state: Serve has built the server, the packet manager, the      *)
(* dispatcher and the workers, and is about to read the first frame.       *)
(***************************************************************************)
\* no exchange completed yet / no packet handed to the codec
NoExchange == [pkt |-> NoPkt, err |-> ErrNil, f |-> 0, rp |-> NoReply,
               calls |-> {}, o |-> OkOutcome]
NoMPkt == [t |-> "none"]

InitPipeline ==
    /\ pcServe = "reading"
    /\ serveErr = "none"
    /\ reqLog = <<>>
    /\ pktChan = <<>>
    /\ pktChanClosed = FALSE
    /\ pcDisp = "recv"
    /\ dispPkt = NoPkt
    /\ rwChan = <<>>
    /\ workClosed = FALSE
    /\ pool = {}
    /\ cmdPc = "idle"
    /\ cmdPkt = NoPkt
    /\ cmdReply = NoReply
    /\ working = 0
    /\ requests = <<>>
    /\ responses = <<>>
    /\ finiClosed = FALSE
    /\ pcCtl = "select"
    /\ incoming = <<>>
    /\ outgoing = <<>>
    /\ wire = <<>>
    /\ lastReply = NoExchange
    /\ mbytes = <<>>
    /\ upkt = NoMPkt
    /\ crashed = FALSE

\* the counters and the handle tables of a server just built
InitServer ==
    /\ InitPipeline
    /\ counter = 0
    /\ openFiles = EmptyMap
    /\ openDirs = EmptyMap
    /\ handleCtr = 0
    /\ res = <<>>

\* a handler other than HostFS, and the package as it is built: makePacket
\* leaves FollowSpec at its zero value
DefaultConfig == [AllowWrite |-> TRUE, FollowSpec |-> FALSE]
\* no HostFS is in use
NoHostFS == [files |-> EmptyMap, dirs |-> {}, links |-> EmptyMap, fds |-> EmptyMap]
InitNoHost == config = DefaultConfig /\ hostfs = NoHostFS

Init == InitServer /\ mpkt = NoMPkt /\ InitNoHost

serveVars == <<pcServe, serveErr, counter, reqLog, pktChanClosed>>
dispVars == <<pcDisp, dispPkt>>
workerVars == <<pool, cmdPc, cmdPkt, cmdReply>>
ctlVars == <<pcCtl, incoming, outgoing, wire>>
regVars == <<openFiles, openDirs, handleCtr, res>>
obsVars == <<lastReply, mpkt, mbytes, upkt, config, hostfs>>

(***************************************************************************)
(* Serve: the read loop and the deferred calls.                            *)
(***************************************************************************)
\* server.replyError: Serve itself marshals the STATUS for err and writes it
\* to the transport; ok: whether that Write succeeds
replyError(pkt, err, w, ok) ==
    Append(w, [order |-> pkt.order,
               id    |-> statusFromError(pkt, err).id,
               type  |-> statusFromError(pkt, err).type,
               code  |-> statusFromError(pkt, err).code,
               ok    |-> ok])

\* readPacket succeeded: makePacket, newOrderedRequest, pktChan <- pkt.
\* On errUnknownExtendedPacket Serve calls replyError; any other makePacket
\* error is only logged.  The packet is passed on regardless.
ServeRead(fr) ==
    /\ ~crashed
    /\ pcServe = "reading"
    /\ Len(reqLog) < MaxReqs
    /\ Len(pktChan) < ChanCap
    /\ LET mp  == makePacket(fr)
           pkt == newOrderedRequest(mp.pkt, counter)
       IN /\ counter' = u32Inc(counter)
          /\ reqLog' = Append(reqLog, [pkt |-> pkt, err |-> mp.err])
          /\ pktChan' = Append(pktChan, pkt)
          /\ IF mp.err = errUnknownExtendedPacket
             THEN \E ok \in BOOLEAN :
                     wire' = replyError(mp.pkt, ErrOpUnsupported, wire, ok)
             ELSE UNCHANGED wire
    /\ UNCHANGED <<pcServe, serveErr, pktChanClosed, dispVars, rwChan,
                   workClosed, workerVars, working, requests, responses,
                   finiClosed, pcCtl, incoming, outgoing, regVars, obsVars,
                   crashed>>

\* readPacket failed: Serve returns; the deferred close(pktChan) runs
ServeReadErr(e) ==
    /\ ~crashed
    /\ pcServe = "reading"
    /\ serveErr' = e
    /\ pktChanClosed' = TRUE
    /\ pcServe' = "wgwait"
    /\ UNCHANGED <<counter, reqLog, pktChan, dispVars, rwChan, workClosed,
                   workerVars, working, requests, responses, finiClosed,
                   ctlVars, regVars, obsVars, crashed>>

\* a wg.Wait() that returns once the worker channels are closed, whether or
\* not a worker still holds a request
workersDone_early == workClosed
\* every worker has returned from packetWorker or is bound to without taking
\* another step: its channel is closed and drained and it holds no packet
workersDone == workClosed /\ Len(rwChan) = 0 /\ pool = {} /\ cmdPc = "idle"

\* deferred wg.Wait(): every worker has returned
ServeWgWait ==
    /\ ~crashed
    /\ pcServe = "wgwait"
    /\ workersDone
    /\ pcServe' = "closeall"
    /\ UNCHANGED <<serveErr, counter, reqLog, pktChan, pktChanClosed, dispVars,
                   rwChan, workClosed, workerVars, working, requests,
                   responses, finiClosed, ctlVars, regVars, obsVars, crashed>>

\* closeAllHandles: the registry after it ran, with the Close calls it made
closeAllHandles ==
    LET fileRes == {openFiles[h] : h \in DOMAIN openFiles}
        dirRes  == {openDirs[h] : h \in DOMAIN openDirs}
    IN [files |-> EmptyMap,
        dirs  |-> EmptyMap,
        res   |-> [r \in DOMAIN res |->
                     IF r \in fileRes \/ (r \in dirRes /\ res[r].closer)
                     THEN [res[r] EXCEPT !.closes = @ + 1]
                     ELSE res[r]]]

\* deferred closeAllHandles(), then Serve returns to its caller
ServeCloseAll ==
    /\ ~crashed
    /\ pcServe = "closeall"
    /\ LET c == closeAllHandles
       IN /\ openFiles' = c.files
          /\ openDirs' = c.dirs
          /\ res' = c.res
    /\ pcServe' = "returned"
    /\ UNCHANGED <<serveErr, counter, reqLog, pktChan, pktChanClosed, dispVars,
                   rwChan, workClosed, workerVars, working, requests,
                   responses, finiClosed, ctlVars, handleCtr, obsVars, crashed>>


(***************************************************************************)
(* Dispatcher goroutine of workerChan.                                     *)
(***************************************************************************)
\* a type switch whose first case names *fxpReadPkt only
IsRW_readsOnly(pkt) == pkt.kind = "READ"
\* case *fxpReadPkt, *fxpWritePkt of the dispatcher's type switch
IsRW(pkt) == pkt.kind \in {"READ", "WRITE"}

\* a dispatcher that admits a CLOSE while requests are in flight
mayAdmit_eager(pkt, inFlight) == TRUE
\* whether the dispatcher may admit a packet: a CLOSE waits in working.Wait()
\* until nothing is in flight
mayAdmit(pkt, inFlight) == pkt.kind = "CLOSE" => inFlight = 0

\* pkt := <-pktChan, then incomingPacket: working.Add(1); requests <- pkt
DispAdmit ==
    /\ ~crashed
    /\ pcDisp = "recv"
    /\ Len(pktChan) > 0
    /\ mayAdmit(Head(pktChan), working)
    /\ Len(requests) < ChanCap
    /\ working' = working + 1
    /\ requests' = Append(requests, Head(pktChan))
    /\ dispPkt' = Head(pktChan)
    /\ pktChan' = Tail(pktChan)
    /\ pcDisp' = "send"
    /\ UNCHANGED <<serveVars, rwChan, workClosed, workerVars, responses,
                   finiClosed, ctlVars, regVars, obsVars, crashed>>

\* rwChan <- pkt
DispSendRW ==
    /\ ~crashed
    /\ pcDisp = "send"
    /\ IsRW(dispPkt)
    /\ Len(rwChan) < ChanCap
    /\ rwChan' = Append(rwChan, dispPkt)
    /\ dispPkt' = NoPkt
    /\ pcDisp' = "recv"
    /\ UNCHANGED <<serveVars, pktChan, workClosed, workerVars, working,
                   requests, responses, finiClosed, ctlVars, regVars,
                   obsVars, crashed>>

\* cmdChan <- pkt: cmdChan is unbuffered, the serial worker receives it now
DispSendCmd ==
    /\ ~crashed
    /\ pcDisp = "send"
    /\ ~IsRW(dispPkt)
    /\ cmdPc = "idle"
    /\ cmdPkt' = dispPkt
    /\ cmdPc' = "busy"
    /\ dispPkt' = NoPkt
    /\ pcDisp' = "recv"
    /\ UNCHANGED <<serveVars, pktChan, rwChan, workClosed, pool, cmdReply,
                   working, requests, responses, finiClosed, ctlVars, regVars,
                   obsVars, crashed>>

\* pktChan is closed and drained: close(rwChan); close(cmdChan)
DispCloseChans ==
    /\ ~crashed
    /\ pcDisp = "recv"
    /\ Len(pktChan) = 0
    /\ pktChanClosed
    /\ workClosed' = TRUE
    /\ pcDisp' = "mgrclose"
    /\ UNCHANGED <<serveVars, pktChan, dispPkt, rwChan, workerVars, working,
                   requests, responses, finiClosed, ctlVars, regVars,
                   obsVars, crashed>>

\* packetManager.close: working.Wait(); close(fini)
DispMgrClose ==
    /\ ~crashed
    /\ pcDisp = "mgrclose"
    /\ working = 0
    /\ finiClosed' = TRUE
    /\ pcDisp' = "done"
    /\ UNCHANGED <<serveVars, pktChan, dispPkt, rwChan, workClosed, workerVars,
                   working, requests, responses, ctlVars, regVars, obsVars,
                   crashed>>

(***************************************************************************)
(* Workers: goroutines running packetWorker on rwChan or cmdChan.          *)
(***************************************************************************)
\* a pool worker receives a READ or WRITE and looks its handle up (getFile)
PoolRecv ==
    /\ ~crashed
    /\ Cardinality(pool) < NumRW
    /\ Len(rwChan) > 0
    /\ pool' = pool \cup {[pkt |-> Head(rwChan),
                           f   |-> getFile(openFiles, Head(rwChan).h),
                           st  |-> "busy",
                           rp  |-> NoReply]}
    /\ rwChan' = Tail(rwChan)
    /\ UNCHANGED <<serveVars, pktChan, dispVars, workClosed, cmdPc, cmdPkt,
                   cmdReply, working, requests, responses, finiClosed, ctlVars,
                   regVars, obsVars, crashed>>

\* the response of a worker: packetWorker's reply tagged with the order id
orderedResponse(rp, pkt) == [rp EXCEPT !.order = pkt.order]

\* a pool worker runs the READ or WRITE case of packetWorker; the handler
\* call it makes returns outcome o
PoolExec(j, o) ==
    /\ ~crashed
    /\ j \in pool
    /\ j.st = "busy"
    /\ LET r == packetWorker(j.pkt, j.f, o)
       IN pool' = (pool \ {j}) \cup
                    {[j EXCEPT !.st = "ready", !.rp = orderedResponse(r.rp, j.pkt)]}
    /\ UNCHANGED <<serveVars, pktChan, dispVars, rwChan, workClosed, cmdPc,
                   cmdPkt, cmdReply, working, requests, responses, finiClosed,
                   ctlVars, regVars, obsVars, crashed>>

\* readyPacket of a pool worker: responses <- pkt; working.Done()
PoolReady(j) ==
    /\ ~crashed
    /\ j \in pool
    /\ j.st = "ready"
    /\ Len(responses) < ChanCap
    /\ responses' = Append(responses, j.rp)
    /\ working' = working - 1
    /\ pool' = pool \ {j}
    /\ UNCHANGED <<serveVars, pktChan, dispVars, rwChan, workClosed, cmdPc,
                   cmdPkt, cmdReply, requests, finiClosed, ctlVars, regVars,
                   obsVars, crashed>>

\* the serial worker runs the request's case of packetWorker; the handler
\* call it makes returns outcome o
CmdExec(o) ==
    /\ ~crashed
    /\ cmdPc = "busy"
    /\ LET r == packetWorker(cmdPkt, 0, o)
       IN IF r.panic
          THEN /\ crashed' = TRUE
               /\ UNCHANGED <<cmdPc, cmdReply, regVars>>
          ELSE /\ openFiles' = r.files
               /\ openDirs' = r.dirs
               /\ handleCtr' = r.ctr
               /\ res' = r.res
               /\ cmdReply' = orderedResponse(r.rp, cmdPkt)
               /\ cmdPc' = "ready"
               /\ UNCHANGED crashed
    /\ UNCHANGED <<serveVars, pktChan, dispVars, rwChan, workClosed, pool,
                   cmdPkt, working, requests, responses, finiClosed, ctlVars,
                   obsVars>>

\* readyPacket of the serial worker: responses <- pkt; working.Done()
CmdReady ==
    /\ ~crashed
    /\ cmdPc = "ready"
    /\ Len(responses) < ChanCap
    /\ responses' = Append(responses, cmdReply)
    /\ working' = working - 1
    /\ cmdPc' = "idle"
    /\ cmdPkt' = NoPkt
    /\ cmdReply' = NoReply
    /\ UNCHANGED <<serveVars, pktChan, dispVars, rwChan, workClosed, pool,
                   requests, finiClosed, ctlVars, regVars, obsVars, crashed>>

(***************************************************************************)
(* Controller goroutine of newPktMgr and sendReadyPackets.                 *)
(***************************************************************************)
RECURSIVE sendReadyPackets(_, _, _, _, _)
\* sendReadyPackets: while both lists are non-empty and their heads carry the
\* same order id, the head response is marshalled and, when MarshalBinary
\* returned no error, written; both heads are shifted out, whatever
\* MarshalBinary and Write returned.  marshalled: whether MarshalBinary
\* succeeds; ok: whether Write succeeds.
sendReadyPackets(in, out, w, ok, marshalled) ==
    IF readyToSend(in, out)
    THEN sendReadyPackets(Tail(in), Tail(out),
                          IF marshalled
                          THEN Append(w, [order |-> Head(out).order,
                                          id |-> Head(out).id,
                                          type |-> Head(out).type,
                                          code |-> Head(out).code, ok |-> ok])
                          ELSE w,
                          ok, marshalled)
    ELSE [incoming |-> in, outgoing |-> out, wire |-> w]

\* what MarshalBinary returns for the response types of packets.go: each of
\* them ends in "return b, nil" (TRUE: no error)
MarshalResults == {TRUE}

\* a Write on the transport has returned an error
writeFailed(w) == \E i \in DOMAIN w : ~w[i].ok

\* the results Write may return now: a transport that failed stays failed
WriteResults == IF writeFailed(wire) THEN {FALSE} ELSE BOOLEAN

\* case pkt := <-s.requests, then sendReadyPackets
CtlRecvRequest(ok, marshalled) ==
    /\ ~crashed
    /\ pcCtl = "select"
    /\ Len(requests) > 0
    /\ LET r == sendReadyPackets(sortPackets(Append(incoming, Head(requests))),
                                 outgoing, wire, ok, marshalled)
       IN /\ incoming' = r.incoming
          /\ outgoing' = r.outgoing
          /\ wire' = r.wire
    /\ requests' = Tail(requests)
    /\ UNCHANGED <<serveVars, pktChan, dispVars, rwChan, workClosed,
                   workerVars, working, responses, finiClosed, pcCtl,
                   regVars, obsVars, crashed>>

\* case pkt := <-s.responses, then sendReadyPackets
CtlRecvResponse(ok, marshalled) ==
    /\ ~crashed
    /\ pcCtl = "select"
    /\ Len(responses) > 0
    /\ LET r == sendReadyPackets(incoming,
                                 sortPackets(Append(outgoing, Head(responses))),
                                 wire, ok, marshalled)
       IN /\ incoming' = r.incoming
          /\ outgoing' = r.outgoing
          /\ wire' = r.wire
    /\ responses' = Tail(responses)
    /\ UNCHANGED <<serveVars, pktChan, dispVars, rwChan, workClosed,
                   workerVars, working, requests, finiClosed, pcCtl,
                   regVars, obsVars, crashed>>

\* case <-s.fini: the controller returns
CtlFini ==
    /\ ~crashed
    /\ pcCtl = "select"
    /\ finiClosed
    /\ pcCtl' = "done"
    /\ UNCHANGED <<serveVars, pktChan, dispVars, rwChan, workClosed,
                   workerVars, working, requests, responses, finiClosed,
                   incoming, outgoing, wire, regVars, obsVars, crashed>>

(***************************************************************************)
(* The environment of the pipeline: the frames a client sends and what     *)
(* the handler's calls return.                                             *)
(***************************************************************************)
\* the client-chosen id of its k-th frame
ClientId(k) == 10 * k

PipeHandles == {FormatBase36(1), FormatBase36(2)}
PipeLen == 4

PipeFrames(k) ==
    {Frame("CLOSE", ClientId(k), h, 0, "no") : h \in PipeHandles}
    \cup {Frame(kind, ClientId(k), FormatBase36(1), PipeLen, "no") :
            kind \in {"READ", "WRITE"}}
    \cup {Frame(kind, ClientId(k), <<>>, 0, "no") :
            kind \in {"OPEN", "OPENDIR", "UNKNOWN"}}
    \cup {Frame("EXTENDED", ClientId(k), otherExt, 0, "no")}

PipeOutcomes(pkt) ==
    CASE pkt.kind = "OPENDIR" ->
            {Outcome(ErrNil, 0, c, 1, FALSE) : c \in BOOLEAN}
      [] pkt.kind = "READ" ->
            {Outcome(ErrNil, clamp(pkt.len, maxReadWriteSize), FALSE, 0, FALSE)}
      [] OTHER -> {OkOutcome}

Next ==
    \/ \E fr \in PipeFrames(Len(reqLog) + 1) : ServeRead(fr)
    \/ \E e \in {"EOF", "read error"} : ServeReadErr(e)
    \/ ServeWgWait
    \/ ServeCloseAll
    \/ DispAdmit
    \/ DispSendRW
    \/ DispSendCmd
    \/ DispCloseChans
    \/ DispMgrClose
    \/ PoolRecv
    \/ \E j \in pool : \E o \in PipeOutcomes(j.pkt) : PoolExec(j, o)
    \/ \E j \in pool : PoolReady(j)
    \/ \E o \in PipeOutcomes(cmdPkt) : CmdExec(o)
    \/ CmdReady
    \/ \E ok \in WriteResults, m \in MarshalResults : CtlRecvRequest(ok, m)
    \/ \E ok \in WriteResults, m \in MarshalResults : CtlRecvResponse(ok, m)
    \/ CtlFini

Spec == Init /\ [][Next]_vars

(***************************************************************************)
(* A long session.  Both counters are uint32 and only ever incremented, so *)
(* a connection that has served enough requests is in one of these states  *)
(* with nothing in flight (the histories are started afresh):              *)
(*  - the order-id counter is two short of its maximum;                    *)
(*  - the handle counter is at its maximum and the file opened first,      *)
(*    under the handle minted from 1, is still open.                       *)
(***************************************************************************)
InitLong ==
    /\ InitPipeline
    /\ mpkt = NoMPkt
    /\ InitNoHost
    /\ openDirs = EmptyMap
    /\ \/ /\ counter = u32(65535, 65534)
          /\ handleCtr = 0
          /\ openFiles = EmptyMap
          /\ res = <<>>
       \/ /\ counter = 0
          /\ handleCtr = u32(65535, 65535)
          /\ openFiles = MapPut(EmptyMap, FormatBase36(1), 1)
          /\ res = <<under(NewRes("file", TRUE, 0), FormatBase36(1))>>

SpecLong == InitLong /\ [][Next]_vars

TypeOK ==
    /\ pcServe \in {"reading", "wgwait", "closeall", "returned"}
    /\ pcDisp \in {"recv", "send", "mgrclose", "done"}
    /\ pcCtl \in {"select", "done"}
    /\ working \in 0..MaxReqs
    /\ Len(reqLog) <= MaxReqs
    /\ Len(pktChan) <= ChanCap
    /\ Len(rwChan) <= ChanCap
    /\ Len(requests) <= ChanCap
    /\ Len(responses) <= ChanCap


(***************************************************************************)
(* One request at a time: the client sends a frame and waits for its       *)
(* response, so the frame passes Serve, the dispatcher, a worker and the   *)
(* controller with nothing else in flight.  The frames cover every request *)
(* type and every place a payload can end early; the handler outcomes      *)
(* cover the cases the READ and READDIR branches distinguish.              *)
(***************************************************************************)
MaxExchanges == 3

ReadLens == {0, 1, 32767, 32768, 32769, 2147483647}
DirSizes == {0, 1, 100, 101}

\* where the payload of a frame of this kind can end early
Shorts(kind) ==
    IF kind = "INIT" THEN {"no", "id"}
    ELSE IF kind \in TailKinds THEN {"no", "id", "str", "tail"}
    ELSE {"no", "id", "str"}

ExchangeFrames(k) ==
    {Frame(kind, ClientId(k), h, 0, sh) :
        kind \in (KnownKinds \cup {"UNKNOWN"}) \ {"READ", "EXTENDED"},
        h \in {FormatBase36(1)}, sh \in {"no"}}
    \cup {Frame("EXTENDED", ClientId(k), name, 0, "no") : name \in ExtNames}
    \cup UNION {{Frame(kind, ClientId(k), FormatBase36(1), 0, sh) :
                    sh \in Shorts(kind) \ {"no"}} :
                 kind \in {"OPEN", "REMOVE", "READ", "CLOSE", "INIT"}}
    \cup {Frame(kind, ClientId(k), FormatBase36(2), 0, "no") :
            kind \in {"READ", "READDIR", "CLOSE"}}
    \cup {Frame("READ", ClientId(k), FormatBase36(1), len, "no") :
            len \in ReadLens}

\* the error values a handler method may return
HandlerErrs ==
    {ErrNil, ioEOF, osErrNotExist, errHandler, Errno0, ENOENT, EPERM, EIO,
     PathErrorOther}
    \cup {PathError(n) : n \in {0, 1, 2, 5}}
    \cup {Fxerr(c) : c \in {fxOK, fxEOF, fxPermissionDenied, fxFailure,
                            fxOpUnsupported, 19}}

\* what the handler call made for the packet may return
ExchangeOutcomes(pkt) ==
    CASE pkt.kind = "OPENDIR" ->
            {Outcome(ErrNil, 0, TRUE, size, FALSE) : size \in DirSizes}
      [] pkt.kind = "READ" /\ getFile(openFiles, pkt.h) = 0 ->
            {OkOutcome}   \* no file under the handle: ReadAt is not called
      [] pkt.kind = "READ" ->
            LET buflen == clamp(pkt.len, maxReadWriteSize)
            IN {Outcome(err, n, FALSE, 0, FALSE) :
                    err \in {ErrNil, ioEOF, EIO},
                    n \in {0, 1, buflen} \cap (0..buflen)}
      [] pkt.kind = "READDIR" -> {OkOutcome, Outcome(EIO, 0, FALSE, 0, FALSE)}
      [] pkt.kind \in {"OPEN", "STAT"} ->
            {OkOutcome, Outcome(ENOENT, 0, FALSE, 0, FALSE)}
      [] pkt.kind = "REMOVE" ->
            {Outcome(err, 0, FALSE, 0, FALSE) : err \in HandlerErrs}
      [] OTHER -> {OkOutcome}

\* the pipeline holds no packet
pipelineIdle ==
    /\ Len(pktChan) = 0 /\ Len(rwChan) = 0
    /\ Len(requests) = 0 /\ Len(responses) = 0
    /\ Len(incoming) = 0 /\ Len(outgoing) = 0
    /\ pool = {} /\ cmdPc = "idle" /\ pcDisp = "recv" /\ working = 0

\* Serve reads frame fr, makePacket decodes it, the packet is dispatched
\* whatever makePacket returned, a worker runs packetWorker on it, and the
\* controller writes the response
Exchange(fr, o) ==
    /\ ~crashed
    /\ pcServe = "reading"
    /\ pipelineIdle
    /\ counter < MaxExchanges   \* the session is fresh: counter frames were read
    /\ counter' = u32Inc(counter)
    /\ LET mp  == makePacket(fr)
           pkt == newOrderedRequest(mp.pkt, counter)
           f   == getFile(openFiles, pkt.h)
           r   == packetWorker(pkt, f, o)
       IN IF r.panic
          THEN /\ crashed' = TRUE
               /\ UNCHANGED <<regVars, lastReply>>
          ELSE /\ openFiles' = r.files
               /\ openDirs' = r.dirs
               /\ handleCtr' = r.ctr
               /\ res' = r.res
               /\ lastReply' = [pkt |-> pkt, err |-> mp.err, f |-> f,
                                rp |-> orderedResponse(r.rp, pkt),
                                calls |-> r.calls, o |-> o]
               /\ UNCHANGED crashed
    /\ UNCHANGED <<pcServe, serveErr, reqLog, pktChan, pktChanClosed, dispVars,
                   rwChan, workClosed, workerVars, working, requests,
                   responses, finiClosed, ctlVars, mpkt, mbytes, upkt,
                   config, hostfs>>

NextExchange ==
    \E fr \in ExchangeFrames(counter + 1) :
        \E o \in ExchangeOutcomes(makePacket(fr).pkt) : Exchange(fr, o)

SpecExchange == Init /\ [][NextExchange]_vars

(***************************************************************************)
(* The codec on its own: a response packet is handed to MarshalBinary.     *)
(***************************************************************************)
MaxItems == 2

SeqsUpTo(S, n) == UNION {[1..k -> S] : k \in 0..n}

CodecIds == {0, 1, 2147483647}
CodecStrs == {<<>>, <<47>>, <<47, 255>>}
CodecExts == {<<>>, <<[Name |-> <<97>>, Data |-> <<>>]>>}
AttrFlagNames == {"Size", "UIDGID", "Permissions", "AcModTime", "Extended"}

\* a FileAttr whose fields hold a value where the flag says so and the zero
\* value elsewhere
CodecAttr(flags, exts) ==
    [Flags |-> flags,
     Size |-> IF "Size" \in flags THEN U64(1, 2) ELSE U64(0, 0),
     UID |-> IF "UIDGID" \in flags THEN 1000 ELSE 0,
     GID |-> IF "UIDGID" \in flags THEN 100 ELSE 0,
     Perms |-> IF "Permissions" \in flags
               THEN [bits |-> {"ModeDir"}, perm |-> 493]
               ELSE [bits |-> {}, perm |-> 0],
     AcTime |-> IF "AcModTime" \in flags THEN timeUnix(3, 0) ELSE ZeroTime,
     ModTime |-> IF "AcModTime" \in flags THEN timeUnix(4, 0) ELSE ZeroTime,
     Extensions |-> IF "Extended" \in flags THEN exts ELSE <<>>]

CodecAttrs == {CodecAttr(f, e) : f \in SUBSET AttrFlagNames, e \in CodecExts}

CodecItems ==
    {[Name |-> n, LongName |-> n, Attr |-> CodecAttr(f, <<>>)] :
        n \in {<<>>, <<97, 98>>}, f \in {{}, {"Size", "Permissions", "AcModTime"}}}

\* the request packets
CodecRequests ==
    {[t |-> "INIT", Version |-> ProtocolVersion, Extensions |-> e] :
        e \in CodecExts}
    \cup {[t |-> "OPEN", ID |-> i, Path |-> s, PFlags |-> f, Attr |-> a] :
            i \in {1}, s \in {<<47>>}, f \in {1, 26},
            a \in {CodecAttr({}, <<>>), CodecAttr({"Permissions"}, <<>>)}}
    \cup {[t |-> "READ", ID |-> i, Handle |-> h, Offset |-> U64(0, 7),
           Len |-> n] :
            i \in CodecIds, h \in {FormatBase36(1)}, n \in {0, 32768}}
    \cup {[t |-> "WRITE", ID |-> i, Handle |-> h, Offset |-> U64(1, 0),
           Data |-> d] :
            i \in CodecIds, h \in {FormatBase36(1)}, d \in CodecStrs}
    \cup {[t |-> "RENAME", ID |-> i, OldPath |-> o, NewPath |-> n] :
            i \in CodecIds, o \in CodecStrs, n \in CodecStrs}
    \cup {[t |-> "SYMLINK", FollowSpec |-> f, ID |-> i, LinkPath |-> l,
           TargetPath |-> g] :
            f \in BOOLEAN, i \in {1}, l \in CodecStrs, g \in CodecStrs}
    \cup {[t |-> "EXT_POSIX_RENAME", ID |-> i, OldPath |-> o, NewPath |-> n] :
            i \in {0, 1}, o \in {<<47>>}, n \in CodecStrs}
    \cup {[t |-> "EXT_STATVFS", ID |-> i, Path |-> s] :
            i \in {0, 1}, s \in CodecStrs}
    \cup {[t |-> k, ID |-> i, Path |-> s] :
            k \in DOMAIN IdStringTypes, i \in {1}, s \in CodecStrs}
    \cup {[t |-> k, ID |-> i, Path |-> s, Attr |-> a] :
            k \in DOMAIN IdStringAttrTypes, i \in {1}, s \in {<<47>>},
            a \in {CodecAttr({}, <<>>), CodecAttr(AttrFlagNames, <<>>)}}

CodecPackets ==
    {[t |-> "VERSION", Version |-> ProtocolVersion, Extensions |-> e] :
        e \in CodecExts}
    \cup {[t |-> "STATUS", ID |-> i, Code |-> c, msg |-> m, lang |-> l] :
            i \in CodecIds, c \in {fxOK, fxEOF, fxOpUnsupported},
            m \in CodecStrs, l \in {<<>>, <<101, 110>>}}
    \cup {[t |-> "HANDLE", ID |-> i, Handle |-> h] :
            i \in CodecIds, h \in {FormatBase36(1), FormatBase36(36)}}
    \cup {[t |-> "DATA", ID |-> i, Data |-> d] : i \in CodecIds, d \in CodecStrs}
    \cup {[t |-> "NAME", ID |-> i, Items |-> it] :
            i \in {1}, it \in SeqsUpTo(CodecItems, MaxItems)}
    \cup {[t |-> "ATTRS", ID |-> i, Attr |-> a] : i \in CodecIds, a \in CodecAttrs}
    \cup {[t |-> "EXTENDED_REPLY", ID |-> i,
           StatVFS |-> [k \in 1..11 |-> U64(0, k)]] : i \in CodecIds}
    \cup CodecRequests

InitCodec == InitServer /\ mpkt \in CodecPackets /\ InitNoHost

\* b, err := pkt.MarshalBinary()
Marshal ==
    /\ mpkt.t # "none"
    /\ mbytes = <<>>
    /\ mbytes' = MarshalBinary(mpkt)
    /\ UNCHANGED <<serveVars, pktChan, dispVars, rwChan, workClosed,
                   workerVars, working, requests, responses, finiClosed,
                   ctlVars, regVars, lastReply, mpkt, upkt, config, hostfs,
                   crashed>>

\* pkt.UnmarshalBinary(b) on a new packet of the same type, b being the
\* marshalled bytes after the length and the type byte
Unmarshal(allocOk) ==
    /\ mpkt \in CodecPackets
    /\ mbytes # <<>>
    /\ upkt = NoMPkt
    /\ upkt' = UnmarshalBinary(mpkt.t, SubSeq(mbytes, 6, Len(mbytes)), allocOk)
    /\ UNCHANGED <<serveVars, pktChan, dispVars, rwChan, workClosed,
                   workerVars, working, requests, responses, finiClosed,
                   ctlVars, regVars, lastReply, mpkt, mbytes, config, hostfs,
                   crashed>>

NextCodec ==
    \/ Marshal
    \/ \E allocOk \in BOOLEAN : Unmarshal(allocOk)

SpecCodec == InitCodec /\ [][NextCodec]_vars

(***************************************************************************)
(* The decoders on arbitrary bytes: mpkt holds the bytes handed to a take  *)
(* function or standing on the transport, upkt what the call produced.     *)
(***************************************************************************)
MaxJunk == 1

\* well-formed encodings, and headers that announce more than follows
DecodeWhole ==
    {appendU32(<<>>, 7), appendU64(<<>>, U64(1, 2)),
     appendStr(<<>>, <<47, 97>>), appendStr(<<>>, <<>>),
     <<255, 255, 255, 255>>, <<0, 0, 0, 3, 47>>,
     <<128, 0, 0, 0, 255, 255, 255, 255>>,
     <<128, 0, 0, 0, 128, 0, 0, 0, 0, 0, 0, 0, 0, 0, 0, 0>>,
     <<0, 4, 0, 1, 3>>, <<0, 0, 0, 0>>, <<0, 0, 0, 2, 4, 0>>}
    \cup {appendAttr(<<>>, a) : a \in CodecAttrs}

DecodeInputs ==
    UNION {{SubSeq(w, 1, n) \o junk :
               n \in 0..Len(w), junk \in SeqsUpTo({9}, MaxJunk)} :
           w \in DecodeWhole}

InitDecode ==
    /\ InitServer
    /\ mpkt \in {[t |-> "bytes", b |-> b] : b \in DecodeInputs}
    /\ InitNoHost

ioErrUnexpectedEOF == [class |-> "io.ErrUnexpectedEOF", v |-> 0]

\* io.ReadFull(r, buf) with len(buf) = n on a transport that holds the
\* bytes b and then ends
ReadFull(b, n) ==
    IF n = 0 THEN ErrNil
    ELSE IF Len(b) = 0 THEN ioEOF
    ELSE IF n < 0 \/ Len(b) < n THEN ioErrUnexpectedEOF
    ELSE ErrNil

\* readPacket.  alloc is the length of the buffer made for the body: the
\* declared length, whatever it is.  make panics where the length is above
\* the largest int (a 32-bit build, lengths from 2^31), and b[0] panics on
\* an empty body.
readPacket(r, allocOk) ==
    LET noPacket(err, alloc, panic) ==
            [typ |-> 0, data |-> <<>>, err |-> err, alloc |-> alloc,
             panic |-> panic]
    IN IF ReadFull(r, 4) # ErrNil THEN noPacket(ReadFull(r, 4), 0, FALSE)
       ELSE With(takeU32(r), LAMBDA pktLen :
               IF makeFails(pktLen.v, allocOk)
               THEN noPacket(ErrNil, 0, TRUE)
               ELSE IF ReadFull(pktLen.rest, pktLen.v) # ErrNil
               THEN noPacket(ReadFull(pktLen.rest, pktLen.v), pktLen.v, FALSE)
               ELSE IF pktLen.v = 0
               THEN noPacket(ErrNil, 0, TRUE)
               ELSE [typ |-> pktLen.rest[1],
                     data |-> SubSeq(pktLen.rest, 2, pktLen.v),
                     err |-> ErrNil, alloc |-> pktLen.v, panic |-> FALSE])

DecodeUnchanged ==
    UNCHANGED <<serveVars, pktChan, dispVars, rwChan, workClosed, workerVars,
                working, requests, responses, finiClosed, ctlVars, regVars,
                lastReply, mpkt, mbytes, config, hostfs, crashed>>

\* v, rest, err := takeU32(b)
TakeU32 ==
    /\ upkt = NoMPkt
    /\ upkt' = [f |-> "takeU32", r |-> takeU32p(mpkt.b)]
    /\ DecodeUnchanged

TakeU64 ==
    /\ upkt = NoMPkt
    /\ upkt' = [f |-> "takeU64", r |-> takeU64p(mpkt.b)]
    /\ DecodeUnchanged

TakeStr ==
    /\ upkt = NoMPkt
    /\ upkt' = [f |-> "takeStr", r |-> takeStrp(mpkt.b)]
    /\ DecodeUnchanged

TakeAttr(allocOk) ==
    /\ upkt = NoMPkt
    /\ upkt' = [f |-> "takeAttr", r |-> takeAttr(mpkt.b, allocOk)]
    /\ DecodeUnchanged

\* typ, data, err := readPacket(transport)
ReadPacket(allocOk) ==
    /\ upkt = NoMPkt
    /\ upkt' = [f |-> "readPacket", r |-> readPacket(mpkt.b, allocOk)]
    /\ DecodeUnchanged

NextDecode ==
    \/ TakeU32
    \/ TakeU64
    \/ TakeStr
    \/ \E allocOk \in BOOLEAN : TakeAttr(allocOk)
    \/ \E allocOk \in BOOLEAN : ReadPacket(allocOk)

SpecDecode == InitDecode /\ [][NextDecode]_vars

(***************************************************************************)
(* pflag.os(): the open flags of SSH_FXP_OPEN as os.OpenFile takes them.   *)
(* An int of open flags is held as its access mode (the bits O_RDONLY,     *)
(* O_WRONLY, O_RDWR share; O_RDONLY is zero) and the set of the other      *)
(* flags that are set.                                                     *)
(***************************************************************************)
PFlagRead == 1
PFlagWrite == 2
PFlagAppend == 4
PFlagCreate == 8
PFlagTruncate == 16
PFlagExclusive == 32

MaxPflag == 63

\* pf&bit != 0
pfHas(pf, bit) == (pf \div bit) % 2 = 1

pflagOs(pf) ==
    [acc  |-> IF pfHas(pf, PFlagRead)
              THEN (IF pfHas(pf, PFlagWrite) THEN "O_RDWR" ELSE "O_RDONLY")
              ELSE IF pfHas(pf, PFlagWrite) THEN "O_WRONLY"
              ELSE "O_RDONLY",
     bits |-> (IF pfHas(pf, PFlagAppend) THEN {"O_APPEND"} ELSE {})
              \cup (IF pfHas(pf, PFlagCreate) THEN {"O_CREATE"} ELSE {})
              \cup (IF pfHas(pf, PFlagTruncate) THEN {"O_TRUNC"} ELSE {})
              \cup (IF pfHas(pf, PFlagExclusive) THEN {"O_EXCL"} ELSE {})]

InitPflags ==
    /\ InitServer
    /\ mpkt \in {[t |-> "pflag", pf |-> pf] : pf \in 0..MaxPflag}
    /\ InitNoHost

\* f := pkt.PFlags.os()
PflagOs ==
    /\ upkt = NoMPkt
    /\ upkt' = [f |-> "os", r |-> pflagOs(mpkt.pf)]
    /\ DecodeUnchanged

NextPflags == PflagOs

SpecPflags == InitPflags /\ [][NextPflags]_vars

(***************************************************************************)
(* HostFS: the handler that works on the host's filesystem.  A path is a   *)
(* byte string.  hostfs holds                                              *)
(*   files   path -> [size, perm] of the regular files                     *)
(*   dirs    the paths of the directories                                  *)
(*   links   path -> target of the symbolic links                          *)
(*   fds     resource -> [path, acc, append] of the open *os.File          *)
(***************************************************************************)
RECURSIVE splitPath(_, _)
\* the elements of p between slashes; cur is the element being read
splitPath(p, cur) ==
    IF p = <<>> THEN <<cur>>
    ELSE IF Head(p) = 47 THEN <<cur>> \o splitPath(Tail(p), <<>>)
    ELSE splitPath(Tail(p), Append(cur, Head(p)))

RECURSIVE cleanElems(_, _, _)
\* path.Clean on the elements: empty and "." elements go, ".." takes the
\* element before it with it, stays at the start of a relative path and
\* goes at the root
cleanElems(elems, rooted, out) ==
    IF elems = <<>> THEN out
    ELSE LET e == Head(elems)
             rest == Tail(elems)
         IN IF e = <<>> \/ e = <<46>> THEN cleanElems(rest, rooted, out)
            ELSE IF e # <<46, 46>> THEN cleanElems(rest, rooted, Append(out, e))
            ELSE IF out # <<>> /\ out[Len(out)] # <<46, 46>>
            THEN cleanElems(rest, rooted, SubSeq(out, 1, Len(out) - 1))
            ELSE IF rooted THEN cleanElems(rest, rooted, out)
            ELSE cleanElems(rest, rooted, Append(out, e))

RECURSIVE joinPath(_)
joinPath(elems) ==
    IF elems = <<>> THEN <<>>
    ELSE IF Len(elems) = 1 THEN Head(elems)
    ELSE Head(elems) \o <<47>> \o joinPath(Tail(elems))

\* path.Clean
pathClean(p) ==
    IF p = <<>> THEN <<46>>
    ELSE LET rooted == p[1] = 47
             joined == joinPath(cleanElems(splitPath(p, <<>>), rooted, <<>>))
         IN IF rooted THEN <<47>> \o joined
            ELSE IF joined = <<>> THEN <<46>>
            ELSE joined

hostF == <<47, 102>>
hostD == <<47, 100>>
hostL == <<47, 108>>
hostG == <<47, 103>>

\* the filesystem a session starts on: the root, the directory /d and the
\* regular file /f of one byte with mode 0644
InitialFS ==
    [files |-> MapPut(EmptyMap, hostF, [size |-> 1, perm |-> 420]),
     dirs  |-> {<<47>>, hostD},
     links |-> EmptyMap,
     fds   |-> EmptyMap]

\* errors of the os package that are not *os.PathError
LinkError(errno) == [class |-> "LinkError", v |-> errno]
errWriteAtInAppendMode == [class |-> "errors.New", v |-> 10]

hostExists(fs, p) == p \in DOMAIN fs.files \cup fs.dirs \cup DOMAIN fs.links

\* a path after following the symbolic link it names, if it names one
hostResolve(fs, p) == IF p \in DOMAIN fs.links THEN fs.links[p] ELSE p

\* what a handler call gives: the error and the filesystem after it
Host(err, fs) == [err |-> err, fs |-> fs]

\* os.OpenFile followed by Stat and the IsDir test.  The new *os.File is
\* entered under resource r, with the FileInfo that Stat returned (info),
\* which HostFS.OpenFile puts into the hostFile next to it.  O_RDONLY with O_TRUNC is left unspecified by
\* POSIX: trunc says whether this host truncates.
osOpenFile(fs, name, flag, r, trunc) ==
    LET p  == hostResolve(fs, name)
        fd(fi) == [path |-> p, acc |-> flag.acc,
                   append |-> "O_APPEND" \in flag.bits, info |-> fi]
        opened(files) == [fs EXCEPT !.files = files,
                                    !.fds = MapPut(fs.fds, r, fd(files[p]))]
    IN IF p \in fs.dirs
       THEN IF flag.acc # "O_RDONLY" \/ "O_CREATE" \in flag.bits
            THEN Host(PathError(21), fs)
            ELSE Host(ErrBadMessage, fs)
       ELSE IF p \notin DOMAIN fs.files
       THEN IF "O_CREATE" \in flag.bits
            THEN Host(ErrNil, opened(MapPut(fs.files, p, [size |-> 0, perm |-> 420])))
            ELSE Host(PathError(2), fs)
       ELSE IF {"O_CREATE", "O_EXCL"} \subseteq flag.bits
       THEN Host(PathError(17), fs)
       ELSE IF "O_TRUNC" \in flag.bits /\ (flag.acc # "O_RDONLY" \/ trunc)
       THEN Host(ErrNil, opened([fs.files EXCEPT ![p].size = 0]))
       ELSE Host(ErrNil, opened(fs.files))

HostFS_OpenFile(fs, cfg, name, flag, r, trunc) ==
    IF ~cfg.AllowWrite
       /\ ("O_CREATE" \in flag.bits \/ flag.acc \in {"O_RDWR", "O_WRONLY"})
    THEN Host(ErrPermDenied, fs)
    ELSE osOpenFile(fs, name, flag, r, trunc)

HostFS_Mkdir(fs, cfg, name) ==
    IF ~cfg.AllowWrite THEN Host(ErrPermDenied, fs)
    ELSE IF hostExists(fs, name) THEN Host(PathError(17), fs)
    ELSE Host(ErrNil, [fs EXCEPT !.dirs = @ \cup {name}])

\* os.Truncate and os.Chmod, as the attr flags ask; an attr of a request
\* of this model carries Size 0 and Perms 0600
HostFS_Setstat(fs, cfg, name, flags) ==
    LET p == hostResolve(fs, name)
    IN IF ~cfg.AllowWrite THEN Host(ErrPermDenied, fs)
       ELSE IF flags \cap {"Size", "Permissions"} = {} THEN Host(ErrNil, fs)
       ELSE IF p \in fs.dirs
       THEN Host(IF "Size" \in flags THEN PathError(21) ELSE ErrNil, fs)
       ELSE IF p \notin DOMAIN fs.files THEN Host(PathError(2), fs)
       ELSE Host(ErrNil,
                 [fs EXCEPT !.files[p].size =
                                IF "Size" \in flags THEN 0 ELSE @,
                            !.files[p].perm =
                                IF "Permissions" \in flags THEN 384 ELSE @])

HostFS_Symlink(fs, cfg, name, target) ==
    IF ~cfg.AllowWrite THEN Host(ErrPermDenied, fs)
    ELSE IF hostExists(fs, name) THEN Host(LinkError(17), fs)
    ELSE Host(ErrNil, [fs EXCEPT !.links = MapPut(@, name, target)])

HostFS_Rename(fs, cfg, oldpath, newpath) ==
    IF ~cfg.AllowWrite THEN Host(ErrPermDenied, fs)
    ELSE IF ~hostExists(fs, oldpath) THEN Host(LinkError(2), fs)
    ELSE IF oldpath = newpath THEN Host(ErrNil, fs)
    ELSE IF oldpath \in fs.dirs
    THEN IF newpath \in DOMAIN fs.files \cup DOMAIN fs.links
         THEN Host(LinkError(20), fs)
         ELSE Host(ErrNil, [fs EXCEPT !.dirs = (@ \ {oldpath}) \cup {newpath}])
    ELSE IF newpath \in fs.dirs THEN Host(LinkError(21), fs)
    ELSE LET without == [fs EXCEPT !.files = MapDel(MapDel(@, oldpath), newpath),
                                   !.links = MapDel(MapDel(@, oldpath), newpath)]
         IN IF oldpath \in DOMAIN fs.files
            THEN Host(ErrNil, [without EXCEPT
                                  !.files = MapPut(@, newpath, fs.files[oldpath])])
            ELSE Host(ErrNil, [without EXCEPT
                                  !.links = MapPut(@, newpath, fs.links[oldpath])])

HostFS_Rmdir(fs, cfg, name) ==
    IF ~cfg.AllowWrite THEN Host(ErrPermDenied, fs)
    ELSE IF ~hostExists(fs, name) THEN Host(PathError(2), fs)
    ELSE IF name \notin fs.dirs THEN Host(ErrBadMessage, fs)
    ELSE IF name = <<47>> THEN Host(PathError(16), fs)
    ELSE Host(ErrNil, [fs EXCEPT !.dirs = @ \ {name}])

HostFS_Remove(fs, cfg, name) ==
    IF ~cfg.AllowWrite THEN Host(ErrPermDenied, fs)
    ELSE IF ~hostExists(fs, name) THEN Host(PathError(2), fs)
    ELSE IF name \in fs.dirs THEN Host(ErrBadMessage, fs)
    ELSE Host(ErrNil, [fs EXCEPT !.files = MapDel(@, name),
                                 !.links = MapDel(@, name)])

\* hostFile.WriteAt: os.File.WriteAt refuses a file opened with O_APPEND,
\* and pwrite fails with EBADF on a descriptor opened O_RDONLY.  A WRITE of
\* this model carries one byte for offset 1.
hostFile_WriteAt(fs, r) ==
    LET fd == fs.fds[r]
    IN IF fd.append THEN Host(errWriteAtInAppendMode, fs)
       ELSE IF fd.acc = "O_RDONLY" THEN Host(PathError(9), fs)
       ELSE IF fd.path \notin DOMAIN fs.files THEN Host(ErrNil, fs)
       ELSE Host(ErrNil, [fs EXCEPT !.files[fd.path].size = IF @ < 2 THEN 2 ELSE @])

\* hostFile.Setstat: ftruncate needs a descriptor open for writing (EINVAL
\* otherwise), fchmod does not
hostFile_Setstat(fs, r, flags) ==
    LET fd == fs.fds[r]
        there == fd.path \in DOMAIN fs.files
        sized == IF "Size" \in flags /\ there
                 THEN [fs EXCEPT !.files[fd.path].size = 0] ELSE fs
    IN IF "Size" \in flags /\ fd.acc = "O_RDONLY" THEN Host(PathError(22), fs)
       ELSE IF "Permissions" \in flags /\ there
       THEN Host(ErrNil, [sized EXCEPT !.files[fd.path].perm = 384])
       ELSE Host(ErrNil, sized)

hostFile_Close(fs, r) == Host(ErrNil, [fs EXCEPT !.fds = MapDel(@, r)])

\* hostFile.Size: hostFile embeds the os.FileInfo taken in HostFS.OpenFile and
\* has no Size method of its own
hostFile_Size(fs, r) == fs.fds[r].info.size

(***************************************************************************)
(* A session served by HostFS, one request at a time.  A frame of this     *)
(* specification also holds its second string h2 (the second path of       *)
(* RENAME and SYMLINK); len is the uint32 after the first string: the      *)
(* pflags of OPEN, the flags word of the attr of SETSTAT and FSETSTAT.     *)
(***************************************************************************)
MaxHostExchanges == 3

HostFrame(kind, id, h, h2, len) ==
    [kind |-> kind, id |-> id, h |-> h, h2 |-> h2, len |-> len, short |-> "no"]

HostFrames(k) ==
    {HostFrame("OPEN", ClientId(k), hostF, <<>>, pf) : pf \in {1, 2, 5, 17, 26}}
    \cup {HostFrame(kind, ClientId(k), FormatBase36(1), <<>>, 0) :
            kind \in {"WRITE", "CLOSE"}}
    \cup {HostFrame("FSETSTAT", ClientId(k), FormatBase36(1), <<>>, fl) :
            fl \in {1, 4}}
    \cup {HostFrame("FSTAT", ClientId(k), FormatBase36(1), <<>>, 0)}
    \cup {HostFrame("SETSTAT", ClientId(k), hostF, <<>>, 4),
          HostFrame("STAT", ClientId(k), hostF, <<>>, 0),
          HostFrame("MKDIR", ClientId(k), hostG, <<>>, 0),
          HostFrame("RMDIR", ClientId(k), hostD, <<>>, 0),
          HostFrame("REMOVE", ClientId(k), hostF, <<>>, 0),
          HostFrame("REMOVE", ClientId(k), hostD \o <<47, 46, 46>> \o hostF,
                    <<>>, 0),
          HostFrame("RENAME", ClientId(k), hostF, hostG, 0),
          HostFrame("SYMLINK", ClientId(k), hostF, hostL, 0),
          HostFrame("SYMLINK", ClientId(k), hostL \o <<47>>, hostF, 0)}

Configs == [AllowWrite : BOOLEAN, FollowSpec : BOOLEAN]

InitHost ==
    /\ InitServer
    /\ mpkt = NoMPkt
    /\ config \in Configs
    /\ hostfs = InitialFS

\* the two paths of a RENAME or SYMLINK frame as makePacket decodes them:
\* first is OldPath resp. LinkPath, second is NewPath resp. TargetPath.
\* makePacket builds &fxpSymlinkPkt{}, whose FollowSpec is false.
twoPaths(fr) ==
    LET b == appendStr(appendStr(appendU32(<<>>, fr.id), fr.h), fr.h2)
    IN IF fr.kind = "SYMLINK"
       THEN With(fxpSymlinkPkt_UnmarshalBinary(FALSE, b).pkt, LAMBDA p :
                [first |-> p.LinkPath, second |-> p.TargetPath])
       ELSE With(fxpRenamePkt_UnmarshalBinary(b).pkt, LAMBDA p :
                [first |-> p.OldPath, second |-> p.NewPath])

\* the handler call packetWorker makes for the packet, with its arguments
hostCall(pkt, two, f) ==
    CASE pkt.kind = "OPEN" ->
            Call("OpenFile", 0, <<pathClean(pkt.h), pflagOs(pkt.len)>>)
      [] pkt.kind = "WRITE" -> Call("WriteAt", f, <<>>)
      [] pkt.kind = "CLOSE" -> Call("Close", f, <<>>)
      [] pkt.kind = "FSETSTAT" -> Call("Setstat", f, <<flagNames(pkt.len)>>)
      [] pkt.kind = "SETSTAT" ->
            Call("Setstat", 0, <<pathClean(pkt.h), flagNames(pkt.len)>>)
      [] pkt.kind = "RENAME" ->
            Call("Rename", 0, <<pathClean(two.first), pathClean(two.second)>>)
      [] pkt.kind = "SYMLINK" ->
            Call("Symlink", 0, <<pathClean(two.first), pathClean(two.second)>>)
      [] OTHER -> Call(pkt.kind, 0, <<pathClean(pkt.h)>>)

\* what HostFS, or the hostFile under resource f, does on that call
hostHandler(fs, cfg, c, new, trunc) ==
    CASE c.op = "OpenFile" ->
            HostFS_OpenFile(fs, cfg, c.arg[1], c.arg[2], new, trunc)
      [] c.op = "WriteAt" ->
            IF c.r = 0 THEN Host(ErrNil, fs) ELSE hostFile_WriteAt(fs, c.r)
      [] c.op = "Close" ->
            IF c.r = 0 THEN Host(ErrNil, fs) ELSE hostFile_Close(fs, c.r)
      [] c.op = "Setstat" /\ Len(c.arg) = 1 ->
            IF c.r = 0 THEN Host(ErrNil, fs)
            ELSE hostFile_Setstat(fs, c.r, c.arg[1])
      [] c.op = "Setstat" /\ Len(c.arg) = 2 ->
            HostFS_Setstat(fs, cfg, c.arg[1], c.arg[2])
      [] c.op = "Rename" -> HostFS_Rename(fs, cfg, c.arg[1], c.arg[2])
      [] c.op = "Symlink" -> HostFS_Symlink(fs, cfg, c.arg[1], c.arg[2])
      [] c.op = "MKDIR" -> HostFS_Mkdir(fs, cfg, c.arg[1])
      [] c.op = "RMDIR" -> HostFS_Rmdir(fs, cfg, c.arg[1])
      [] c.op = "REMOVE" -> HostFS_Remove(fs, cfg, c.arg[1])
      [] OTHER ->
            Host(IF hostExists(fs, hostResolve(fs, c.arg[1]))
                 THEN ErrNil ELSE PathError(2), fs)

\* the error of that call, the filesystem after it and, for the FSTAT of an
\* open file, the Size fileAttrFromInfo reads from the hostFile
hostAnswer(fs, cfg, c, f, new, trunc) ==
    [err |-> hostHandler(fs, cfg, c, new, trunc).err,
     fs  |-> hostHandler(fs, cfg, c, new, trunc).fs,
     n   |-> IF c.op = "FSTAT" /\ f # 0 THEN hostFile_Size(fs, f) ELSE 0]

\* Serve reads frame fr, a worker runs packetWorker on the packet with
\* HostFS as the handler, and the controller writes the response
HostExchange(fr, trunc) ==
    /\ ~crashed
    /\ pcServe = "reading"
    /\ pipelineIdle
    /\ counter < MaxHostExchanges
    /\ counter' = u32Inc(counter)
    /\ LET mp  == makePacket(fr)
           pkt == newOrderedRequest(mp.pkt, counter)
           f   == getFile(openFiles, pkt.h)
           c   == hostCall(pkt, twoPaths(fr), f)
       IN \E hr \in {hostAnswer(hostfs, config, c, f, Len(res) + 1, trunc)} :
          \E r \in {packetWorker(pkt, f, Outcome(hr.err, hr.n, FALSE, 0, FALSE))} :
             IF r.panic
             THEN /\ crashed' = TRUE
                  /\ UNCHANGED <<regVars, lastReply, hostfs>>
             ELSE /\ openFiles' = r.files
                  /\ openDirs' = r.dirs
                  /\ handleCtr' = r.ctr
                  /\ res' = r.res
                  /\ hostfs' = IF r.calls = {} THEN hostfs ELSE hr.fs
                  /\ lastReply' = [pkt |-> pkt, err |-> mp.err, f |-> f,
                                   rp |-> orderedResponse(r.rp, pkt),
                                   calls |-> IF r.calls = {} THEN {} ELSE {c},
                                   o |-> Outcome(hr.err, hr.n, FALSE, 0, FALSE),
                                   fr |-> fr]
                  /\ UNCHANGED crashed
    /\ UNCHANGED <<pcServe, serveErr, reqLog, pktChan, pktChanClosed, dispVars,
                   rwChan, workClosed, workerVars, working, requests,
                   responses, finiClosed, ctlVars, mpkt, mbytes, upkt,
                   config>>

NextHost ==
    \E fr \in HostFrames(counter + 1), trunc \in BOOLEAN : HostExchange(fr, trunc)

SpecHost == InitHost /\ [][NextHost]_vars


(***************************************************************************)
(* Properties.                                                             *)
(***************************************************************************)
\* the position, in the order of reading, of the request a Write answers
answered(w) == CHOOSE k \in 1..Len(reqLog) : reqLog[k].pkt.order = w.order

\* C1: the k-th response handed to Write on the transport answers the k-th
\* request read (same order id, same request id), so no response goes out
\* before the responses to all requests read earlier.
C1_ResponsesInArrivalOrder ==
    \A k \in 1..Len(wire) :
        /\ k <= Len(reqLog)
        /\ wire[k].order = reqLog[k].pkt.order
        /\ wire[k].id = reqLog[k].pkt.id

\* C2: no response to a READ or WRITE naming handle H is written after the
\* STATUS response to a CLOSE naming H.  Stated for the READs and WRITEs read
\* before that CLOSE: one the client sends after its CLOSE is necessarily
\* answered after it, so this is the part of the claim a server can keep.
C2_NoReadWriteAfterClose ==
    \A i, j \in 1..Len(wire) :
        LET c  == reqLog[answered(wire[i])].pkt
            rw == reqLog[answered(wire[j])].pkt
        IN ~ /\ i < j
             /\ c.kind = "CLOSE"
             /\ rw.kind \in {"READ", "WRITE"}
             /\ rw.h = c.h
             /\ answered(wire[j]) < answered(wire[i])

\* C3: once Serve has returned both handle tables are empty and every
\* resource that was registered has had its Close called exactly once (a
\* directory reader that is not an io.Closer has no Close to call).
C3_ClosedExactlyOnce ==
    pcServe = "returned" =>
        /\ DOMAIN openFiles = {}
        /\ DOMAIN openDirs = {}
        /\ \A r \in DOMAIN res :
              res[r].closes = IF res[r].kind = "file" \/ res[r].closer
                              THEN 1 ELSE 0

\* C4: no handle is in both tables, and the handle nextHandle would mint now
\* is not one that is currently registered.
C4_HandlesDistinct ==
    /\ DOMAIN openFiles \cap DOMAIN openDirs = {}
    /\ nextHandle(handleCtr).handle \notin (DOMAIN openFiles \cup DOMAIN openDirs)

\* C5: the bytes MarshalBinary returns start with a u32 equal to the number
\* of bytes that follow it.
C5_LengthPrefix ==
    mbytes # <<>> =>
        /\ Len(mbytes) >= 5
        /\ takeU32(mbytes).v = Len(mbytes) - 4

\* C6: a request of a recognised type whose payload failed to decode is
\* answered with STATUS BAD_MESSAGE carrying the id decoded so far, and no
\* handler operation is invoked for it.
C6_BadMessage ==
    (lastReply.err = errShortPacket /\ lastReply.pkt.kind \in KnownKinds) =>
        /\ lastReply.rp.type = "STATUS"
        /\ lastReply.rp.code = fxBadMessage
        /\ lastReply.rp.id = lastReply.pkt.id
        /\ lastReply.calls = {}

\* C7: once a Write on the transport has failed the server tears down: no
\* further frame is read and no further response is handed to Write.
C7_TeardownOnWriteFailure ==
    [][writeFailed(wire) => (reqLog' = reqLog /\ wire' = wire)]_vars

\* Serve has returned and the dispatcher, the workers and the controller have
\* stopped
allStopped ==
    /\ pcServe = "returned"
    /\ pcDisp = "done"
    /\ workersDone
    /\ pcCtl = "done"

\* C8: after the transport reported EOF or a read error, Serve returns that
\* error and everything stops: the server cannot come to rest in any other
\* state.
C8_ServeTerminates ==
    (serveErr # "none" /\ ~ENABLED Next) => allStopped

\* C9: READ on a valid file handle calls ReadAt once with a buffer of
\* min(length, 32768) bytes; n > 0 with a nil or EOF error gives DATA of
\* exactly n bytes, EOF with n = 0 gives STATUS(EOF), any other error gives an
\* error STATUS; DATA never carries more than 32768 bytes.
C9_Read ==
    LET x == lastReply
    IN (x.pkt.kind = "READ" /\ x.f # 0) =>
        /\ x.calls = {Call("ReadAt", x.f, Min(x.pkt.len, 32768))}
        /\ (x.o.n > 0 /\ x.o.err \in {ErrNil, ioEOF}) =>
              (x.rp.type = "DATA" /\ x.rp.n = x.o.n /\ x.rp.id = x.pkt.id)
        /\ (x.o.n = 0 /\ x.o.err = ioEOF) =>
              (x.rp.type = "STATUS" /\ x.rp.code = fxEOF /\ x.rp.id = x.pkt.id)
        /\ x.o.err \notin {ErrNil, ioEOF} =>
              (x.rp.type = "STATUS" /\ x.rp.code \notin {fxOK, fxEOF}
               /\ x.rp.id = x.pkt.id)
        /\ x.rp.type = "DATA" => x.rp.n <= 32768

C9_Witness ==
    /\ lastReply.pkt.kind = "READ"
    /\ lastReply.f # 0
    /\ lastReply.pkt.len > 32768
    /\ lastReply.rp.type = "DATA"
    /\ lastReply.rp.n = 32768

\* a READDIR on a valid directory handle, whose reader did not fail, has just
\* been answered
readdirAnswered ==
    /\ counter' # counter
    /\ ~crashed'
    /\ lastReply'.pkt.kind = "READDIR"
    /\ getDir(openDirs, lastReply'.pkt.h) # 0
    /\ lastReply'.o.err = ErrNil

closeAnswered ==
    /\ counter' # counter
    /\ ~crashed'
    /\ lastReply'.pkt.kind = "CLOSE"
    /\ lastReply'.err = ErrNil

\* C11: CLOSE looks the handle up in the file table and, only when it is
\* absent there, in the directory table.  A handle in neither table is
\* answered with a STATUS that echoes the request id and carries the code of
\* errNoSuchHandle (a failure code); the handler is not called and both
\* tables and every resource stay as they were.  A handle in the file table
\* closes that file and leaves the directory table alone.
C11_CloseLookup ==
    [][closeAnswered =>
        LET x == lastReply'
            h == x.pkt.h
        IN /\ x.rp.type = "STATUS"
           /\ x.rp.id = x.pkt.id
           /\ (h \notin DOMAIN openFiles /\ h \notin DOMAIN openDirs) =>
                 /\ x.rp.code = StatusCode(errNoSuchHandle)
                 /\ x.rp.code # fxOK
                 /\ x.calls = {}
                 /\ openFiles' = openFiles
                 /\ openDirs' = openDirs
                 /\ res' = res
           /\ h \in DOMAIN openFiles =>
                 /\ x.calls = {Call("Close", openFiles[h], 0)}
                 /\ h \notin DOMAIN openFiles'
                 /\ openDirs' = openDirs
           /\ (h \notin DOMAIN openFiles /\ h \in DOMAIN openDirs) =>
                 /\ h \notin DOMAIN openDirs'
                 /\ openFiles' = openFiles]_vars

\* a CLOSE of a handle that was never issued was answered while a file and
\* a directory were open
C11_Witness ==
    /\ lastReply.pkt.kind = "CLOSE"
    /\ lastReply.err = ErrNil
    /\ lastReply.pkt.h \notin DOMAIN openFiles
    /\ lastReply.pkt.h \notin DOMAIN openDirs
    /\ lastReply.calls = {}
    /\ lastReply.rp.type = "STATUS"
    /\ lastReply.rp.code = fxFailure
    /\ DOMAIN openFiles # {}

\* the k-th request read is a well-formed EXTENDED request whose name is
\* none of the extensions the package knows
unknownExtended(k) ==
    /\ reqLog[k].pkt.kind = "EXTENDED"
    /\ reqLog[k].err = ErrNil
    /\ reqLog[k].pkt.h \notin {posixRenameExt, statvfsExt}

\* C12: an EXTENDED request with an unrecognised name is answered with
\* STATUS OP_UNSUPPORTED (8) carrying the request id, and that response is
\* written in arrival order: if the request was the k-th read, its response
\* is the k-th written.
C12_UnknownExtended ==
    \A w \in 1..Len(wire) :
        unknownExtended(answered(wire[w])) =>
            /\ wire[w].type = "STATUS"
            /\ wire[w].code = fxOpUnsupported
            /\ wire[w].id = reqLog[answered(wire[w])].pkt.id
            /\ answered(wire[w]) = w

\* C13: a well-formed EXTENDED request named posix-rename@openssh.com is
\* dispatched to the handler's rename and answered with a STATUS carrying
\* its outcome; one named statvfs@openssh.com is answered with the StatVFS
\* record in an EXTENDED_REPLY; neither is answered with OP_UNSUPPORTED.
C13_KnownExtensions ==
    LET x == lastReply
    IN (x.pkt.kind = "EXTENDED" /\ x.err = ErrNil) =>
        /\ x.pkt.h = posixRenameExt =>
              /\ x.rp.type = "STATUS"
              /\ x.rp.id = x.pkt.id
              /\ x.rp.code = StatusCode(x.o.err)
              /\ x.calls # {}
        /\ x.pkt.h = statvfsExt =>
              /\ x.rp.type = "EXTENDED_REPLY"
              /\ x.rp.id = x.pkt.id
        /\ x.pkt.h \in {posixRenameExt, statvfsExt} =>
              ~(x.rp.type = "STATUS" /\ x.rp.code = fxOpUnsupported)

\* a well-formed REMOVE has been answered: the reply is statusFromError of
\* what the handler's Remove returned
removeAnswered ==
    /\ lastReply.pkt.kind = "REMOVE"
    /\ lastReply.err = ErrNil

\* the error is the errno n, bare or as the Err of an *os.PathError
isErrno(err, n) == err.class \in {"errno", "PathError"} /\ err.v = n

C15_RoundTrip ==
    upkt # NoMPkt =>
        /\ ~upkt.panic
        /\ upkt.err = ErrNil
        /\ upkt.pkt = mpkt


\* the bytes a call consumed: the input is what was consumed followed by
\* the rest that was returned
consumed(r) == SubSeq(mpkt.b, 1, Len(mpkt.b) - Len(r.rest))

isSuffix(r) ==
    /\ Len(r.rest) <= Len(mpkt.b)
    /\ mpkt.b = consumed(r) \o r.rest

\* C16: takeU32, takeU64, takeStr and takeAttr either return the decoded
\* value and exactly the bytes they did not consume, or errShortPacket on
\* an input shorter than the encoding requires; they do nothing else (no
\* panic)
C16_TakeTotal ==
    (upkt # NoMPkt /\ upkt.f # "readPacket") =>
        LET r == upkt.r
        IN /\ ~r.panic
           /\ r.err \in {ErrNil, errShortPacket}
           /\ r.err = ErrNil => isSuffix(r)
           /\ (upkt.f = "takeU32" /\ r.err = ErrNil) =>
                  consumed(r) = appendU32(<<>>, r.v)
           /\ (upkt.f = "takeU64" /\ r.err = ErrNil) =>
                  consumed(r) = appendU64(<<>>, r.v)
           /\ (upkt.f = "takeStr" /\ r.err = ErrNil) =>
                  consumed(r) = appendStr(<<>>, r.v)
           /\ (upkt.f = "takeAttr" /\ r.err = ErrNil) =>
                  Len(consumed(r)) = encodedSize(r.v)
           /\ upkt.f = "takeU32" => (r.err = errShortPacket <=> Len(mpkt.b) < 4)
           /\ upkt.f = "takeU64" => (r.err = errShortPacket <=> Len(mpkt.b) < 8)

\* C20: a frame whose declared length exceeds the maximum (256 KiB) is
\* rejected by readPacket, and no buffer of the declared length is made
C20_PacketBound ==
    (upkt # NoMPkt /\ upkt.f = "readPacket") =>
        LET declared == takeU32(mpkt.b)
        IN (declared.err = ErrNil
            /\ (declared.v < 0 \/ declared.v > 256 * 1024)) =>
               /\ ~upkt.r.panic
               /\ upkt.r.err # ErrNil
               /\ upkt.r.alloc = 0

\* C19: pflag.os() gives O_RDWR iff READ and WRITE are both set, O_RDONLY
\* iff only READ, O_WRONLY iff only WRITE, O_APPEND, O_CREATE, O_TRUNC and
\* O_EXCL for the matching bits, and O_CREATE also whenever TRUNCATE is set
C19_PflagOs ==
    (upkt # NoMPkt /\ upkt.f = "os") =>
        LET pf == mpkt.pf
            rd == pfHas(pf, PFlagRead)
            wr == pfHas(pf, PFlagWrite)
            f  == upkt.r
        IN /\ f.acc = "O_RDWR" <=> (rd /\ wr)
           /\ f.acc = "O_RDONLY" <=> (rd /\ ~wr)
           /\ f.acc = "O_WRONLY" <=> (wr /\ ~rd)
           /\ "O_APPEND" \in f.bits <=> pfHas(pf, PFlagAppend)
           /\ "O_TRUNC" \in f.bits <=> pfHas(pf, PFlagTruncate)
           /\ "O_EXCL" \in f.bits <=> pfHas(pf, PFlagExclusive)
           /\ "O_CREATE" \in f.bits <=>
                  (pfHas(pf, PFlagCreate) \/ pfHas(pf, PFlagTruncate))


\* the request of the last host exchange asks for a change of the
\* filesystem; a WRITE or FSETSTAT only if it names an open file
mutating(x) ==
    \/ x.pkt.kind \in {"SETSTAT", "MKDIR", "RMDIR", "REMOVE", "RENAME", "SYMLINK"}
    \/ x.pkt.kind \in {"WRITE", "FSETSTAT"} /\ x.f # 0
    \/ /\ x.pkt.kind = "OPEN"
       /\ \E bit \in {PFlagWrite, PFlagAppend, PFlagCreate, PFlagTruncate} :
              pfHas(x.pkt.len, bit)

fsView(fs) == [files |-> fs.files, dirs |-> fs.dirs, links |-> fs.links]

\* C17: with AllowWrite false every mutating request is answered STATUS
\* PERMISSION_DENIED and leaves the filesystem as it was
C17_ReadOnly ==
    [][(counter' # counter /\ ~crashed' /\ ~config.AllowWrite
        /\ mutating(lastReply')) =>
           /\ lastReply'.rp.type = "STATUS"
           /\ lastReply'.rp.code = fxPermissionDenied
           /\ fsView(hostfs') = fsView(hostfs)]_vars

\* C18: a SYMLINK frame is decoded in the order the integrator selected
\* (OpenSSH order, target then link, unless FollowSpec), and the handler
\* receives Symlink(linkpath, targetpath)
C18_SymlinkOrder ==
    ("fr" \in DOMAIN lastReply /\ lastReply.pkt.kind = "SYMLINK") =>
        LET fr == lastReply.fr
            link == IF config.FollowSpec THEN fr.h ELSE fr.h2
            target == IF config.FollowSpec THEN fr.h2 ELSE fr.h
        IN lastReply.calls =
               {Call("Symlink", 0, <<pathClean(link), pathClean(target)>>)}

(***************************************************************************)
(* Ordering of CLOSE against the transfers (workerChan).                   *)
(***************************************************************************)
\* a READ or WRITE the dispatcher has admitted and whose response has not
\* been handed to the packet manager: it waits in rwChan or a pool worker
\* holds it
transfersInFlight ==
    {rwChan[i] : i \in DOMAIN rwChan} \cup {j.pkt : j \in pool}

\* the dispatcher admits a CLOSE in this step (working.Wait has returned and
\* incomingPacket runs)
admitsClose == dispPkt.kind # "CLOSE" /\ dispPkt'.kind = "CLOSE"

\* the dispatcher hands a CLOSE to the serial worker in this step
handsClose == cmdPkt.kind # "CLOSE" /\ cmdPkt'.kind = "CLOSE"

\* C25: when the dispatcher admits a CLOSE the in-flight counter is zero,
\* and when it admits it and when it hands it to the serial worker no READ
\* or WRITE is waiting in rwChan or held by a pool worker: each one admitted
\* earlier has made its handler call and handed its response over.
C25_CloseWaitsForTransfers ==
    [][/\ admitsClose => (working = 0 /\ transfersInFlight = {})
       /\ handsClose => (working = 1 /\ transfersInFlight = {})]_vars

\* a CLOSE is with the serial worker and a READ or WRITE was read before it
C25_Witness ==
    /\ cmdPkt.kind = "CLOSE"
    /\ cmdPc = "busy"
    /\ \E k \in DOMAIN reqLog :
          IsRW(reqLog[k].pkt) /\ u32Less(reqLog[k].pkt.order, cmdPkt.order)

(***************************************************************************)
(* The serial worker and the pool (workerChan).                            *)
(***************************************************************************)
\* the requests the dispatcher has not handed to a worker yet
notHandedOver == {pktChan[i] : i \in DOMAIN pktChan} \cup {dispPkt}

\* the request is a file transfer
isTransfer(pkt) == pkt.kind \in {"READ", "WRITE"}

\* C26: the requests other than READ and WRITE all go to the one serial
\* worker, which holds one at a time and takes them in the order they were
\* read: while it holds a request, no request of that kind read earlier is
\* still waiting for a worker.  READ and WRITE go to the pool only.
C26_SerialWorker ==
    /\ \A p \in transfersInFlight : isTransfer(p)
    /\ ~isTransfer(cmdPkt)
    /\ cmdPc = "idle" <=> cmdPkt = NoPkt
    /\ \A k, l \in DOMAIN reqLog :
          (k < l /\ ~isTransfer(reqLog[k].pkt) /\ cmdPkt = reqLog[l].pkt) =>
              reqLog[k].pkt \notin notHandedOver

\* the serial worker runs the second of two requests meant for it
C26_Witness ==
    /\ cmdPc = "busy"
    /\ \E k, l \in DOMAIN reqLog :
          /\ k < l
          /\ ~isTransfer(reqLog[k].pkt)
          /\ cmdPkt = reqLog[l].pkt

(***************************************************************************)
(* Who writes to the transport.                                            *)
(***************************************************************************)
\* a step of the packet manager's controller: it takes a packet from one of
\* its two channels, and the reader, the dispatcher and the workers do not
\* move
controllerStep ==
    /\ pcCtl = "select"
    /\ \/ Len(requests) > 0 /\ requests' = Tail(requests) /\ responses' = responses
       \/ Len(responses) > 0 /\ responses' = Tail(responses) /\ requests' = requests
    /\ UNCHANGED <<serveVars, pktChan, dispVars, rwChan, workClosed,
                   workerVars, working, regVars, crashed>>

\* the packets written in this step, each handed to Write whole
written == SubSeq(wire', Len(wire) + 1, Len(wire'))

\* C27: every step that writes to the transport is a step of the controller;
\* the reader, the dispatcher and the workers never write.  What was written
\* stays as it is and each packet is appended whole, so the bytes of two
\* packets are not interleaved.
C27_OnlyControllerWrites ==
    [][wire' # wire =>
          /\ controllerStep
          /\ Len(wire') > Len(wire)
          /\ SubSeq(wire', 1, Len(wire)) = wire]_vars

\* two packets have been written, the second for an EXTENDED request whose
\* name the package has no packet type for
C27_Witness ==
    /\ Len(wire) >= 2
    /\ \E k \in DOMAIN reqLog : unknownExtended(k)

(***************************************************************************)
(* One response per request.                                               *)
(***************************************************************************)
\* the Write calls made for the k-th request read
responsesTo(k) == {w \in DOMAIN wire : wire[w].order = reqLog[k].pkt.order}

\* C28: no request has two responses written, and once the server has come
\* to rest (the transport has reported EOF or an error, no goroutine can
\* take a step) with no handler call having faulted and no Write having
\* failed, every request read has exactly one response written.
C28_ExactlyOneResponse ==
    /\ \A k \in DOMAIN reqLog : Cardinality(responsesTo(k)) <= 1
    /\ (~ENABLED Next /\ ~crashed /\ ~writeFailed(wire)) =>
          \A k \in DOMAIN reqLog : Cardinality(responsesTo(k)) = 1

(***************************************************************************)
(* Transfers against a CLOSE of the same handle.                           *)
(***************************************************************************)
\* the request was read after a CLOSE naming the same handle
arrivedAfterClose(pkt) ==
    \E k, l \in DOMAIN reqLog :
        /\ k < l
        /\ reqLog[l].pkt = pkt
        /\ reqLog[k].pkt.kind = "CLOSE"
        /\ reqLog[k].pkt.h = pkt.h

\* the pool jobs whose READ or WRITE case has run in this step
executedNow == {j \in pool' \ pool : j.st = "ready"}

\* C29: a READ or WRITE read after a CLOSE naming its handle makes no ReadAt
\* or WriteAt call on a file whose Close has been invoked, and is answered
\* with the invalid-handle failure, whatever the interleaving of the serial
\* worker and the pool.
C29_NoTransferAfterClose ==
    [][\A j \in executedNow :
          (arrivedAfterClose(j.pkt) /\ j.pkt.h \notin DOMAIN openFiles) =>
              /\ j.f = 0 \/ res[j.f].closes = 0
              /\ j.rp.type = "STATUS"
              /\ j.rp.code = StatusCode(errNoSuchHandle)]_vars

(***************************************************************************)
(* Teardown (the deferred calls of Serve).                                 *)
(***************************************************************************)
\* no worker holds a request or can still receive one
noHandlerActivity ==
    /\ pktChanClosed
    /\ Len(pktChan) = 0 /\ dispPkt = NoPkt
    /\ workClosed /\ Len(rwChan) = 0
    /\ pool = {}
    /\ cmdPc = "idle"

\* C30: closeAllHandles runs only after the request channel is closed and
\* every worker has exited: from the moment it may start closing handles no
\* worker holds a request, none can receive one, and no worker takes a step.
C30_TeardownAfterWorkers ==
    [][(pcServe' \in {"closeall", "returned"}) =>
          /\ noHandlerActivity'
          /\ pcServe \in {"closeall", "returned"} => UNCHANGED workerVars]_vars

\* Serve has returned after a READ or WRITE was served, and closeAllHandles
\* closed a file that was still registered
C30_Witness ==
    /\ pcServe = "returned"
    /\ \E k \in DOMAIN reqLog : isTransfer(reqLog[k].pkt)
    /\ \E r \in DOMAIN res : res[r].kind = "file" /\ res[r].closes = 1

(***************************************************************************)
(* The primitive encoders against the decoders: a value is appended to a   *)
(* nil slice and a take function is applied to the bytes.                  *)
(***************************************************************************)
MaxStr == 2
\* 16-bit halves a uint32 is put together from
Halves == {0, 1, 256, 32768, 65535}
WideHalves == {0, 1, 65535}
PrimBytes == {0, 47, 255}

\* in: the halves of the number, most significant first, or the bytes of
\* the string; b: the bytes appended, empty before the append
PrimInputs ==
    {[t |-> "u32", in |-> h, b |-> <<>>] : h \in [1..2 -> Halves]}
    \cup {[t |-> "u64", in |-> h, b |-> <<>>] : h \in [1..4 -> WideHalves]}
    \cup {[t |-> "str", in |-> s, b |-> <<>>] : s \in SeqsUpTo(PrimBytes, MaxStr)}

\* the value handed to the append function
primValue(m) ==
    CASE m.t = "u32" -> u32(m.in[1], m.in[2])
      [] m.t = "u64" -> U64(u32(m.in[1], m.in[2]), u32(m.in[3], m.in[4]))
      [] m.t = "str" -> m.in

InitPrim == InitServer /\ mpkt \in PrimInputs /\ InitNoHost

PrimUnchanged ==
    UNCHANGED <<serveVars, pktChan, dispVars, rwChan, workClosed, workerVars,
                working, requests, responses, finiClosed, ctlVars, regVars,
                lastReply, mbytes, upkt, config, hostfs, crashed>>

\* b = appendU32(nil, v)
AppendU32 ==
    /\ mpkt.t = "u32" /\ mpkt.b = <<>> /\ upkt = NoMPkt
    /\ mpkt' = [mpkt EXCEPT !.b = appendU32(<<>>, primValue(mpkt))]
    /\ PrimUnchanged

\* b = appendU64(nil, v)
AppendU64 ==
    /\ mpkt.t = "u64" /\ mpkt.b = <<>> /\ upkt = NoMPkt
    /\ mpkt' = [mpkt EXCEPT !.b = appendU64(<<>>, primValue(mpkt))]
    /\ PrimUnchanged

\* b = appendStr(nil, v)
AppendStr ==
    /\ mpkt.t = "str" /\ mpkt.b = <<>> /\ upkt = NoMPkt
    /\ mpkt' = [mpkt EXCEPT !.b = appendStr(<<>>, primValue(mpkt))]
    /\ PrimUnchanged

NextPrim ==
    \/ AppendU32
    \/ AppendU64
    \/ AppendStr
    \/ TakeU32
    \/ TakeU64
    \/ TakeStr

SpecPrim == InitPrim /\ [][NextPrim]_vars

\* the two bytes of a 16-bit value, most significant first
be16(h) == <<h \div 256, h % 256>>

\* the value has been appended: every encoding has four bytes or more
appended == mpkt.t \in {"u32", "u64", "str"} /\ mpkt.b # <<>>

\* the take function that belongs to the append function applied
takeFor(t) == CASE t = "u32" -> "takeU32" [] t = "u64" -> "takeU64"
                [] t = "str" -> "takeStr"

\* C24: appendU32 and appendU64 append the value most significant byte
\* first, appendStr appends the length as a u32 and then the bytes as they
\* are; takeU32, takeU64 and takeStr applied to append(nil, v) return v with
\* no error and leave nothing unconsumed.
C24_AppendTakeInverse ==
    appended =>
        /\ mpkt.t = "u32" => mpkt.b = be16(mpkt.in[1]) \o be16(mpkt.in[2])
        /\ mpkt.t = "u64" =>
              mpkt.b = be16(mpkt.in[1]) \o be16(mpkt.in[2])
                          \o be16(mpkt.in[3]) \o be16(mpkt.in[4])
        /\ mpkt.t = "str" =>
              mpkt.b = <<0, 0>> \o be16(Len(mpkt.in)) \o mpkt.in
        /\ (upkt # NoMPkt /\ upkt.f = takeFor(mpkt.t)) =>
              /\ upkt.r.err = ErrNil
              /\ upkt.r.v = primValue(mpkt)
              /\ upkt.r.rest = <<>>

\* a string of two bytes or more has been appended and taken back
C24_Witness ==
    /\ appended
    /\ upkt # NoMPkt
    /\ upkt.f = takeFor(mpkt.t)
    /\ mpkt.t = "str"
    /\ Len(mpkt.in) >= 2

(***************************************************************************)
(* MemFS: the in-memory handler (handler_memory_fs.go).  files maps a path *)
(* to a *memFile, here the index of the object in objs; size is            *)
(* len(content).  fds maps a resource of the server's registry to the      *)
(* memFile OpenFile returned for it.  Under SpecMem the variable hostfs    *)
(* holds this filesystem.                                                  *)
(***************************************************************************)
fxNotADirectory == 19
fxIsADirectory == 24
ErrNoSuchFile == Fxerr(fxNoSuchFile)
ErrNotADirectory == Fxerr(fxNotADirectory)
ErrIsADirectory == Fxerr(fxIsADirectory)
\* errors.New("path exists")
errPathExists == [class |-> "errors.New", v |-> 5]

memFile(isdir, size) == [isdir |-> isdir, size |-> size]

\* MemFS(): the root directory and nothing else
MemFS ==
    [files |-> MapPut(EmptyMap, <<47>>, 1),
     objs  |-> <<memFile(TRUE, 0)>>,
     fds   |-> EmptyMap]

\* what a method returns, and the filesystem after it; panic: a run-time
\* fault inside the method
Mem(err, n, fs) == [err |-> err, n |-> n, fs |-> fs, panic |-> FALSE]

memIsDir(fs, name) == fs.objs[fs.files[name]].isdir

memFS_OpenFile(fs, name, r) ==
    IF name \in DOMAIN fs.files
    THEN IF memIsDir(fs, name)
         THEN Mem(ErrIsADirectory, 0, fs)
         ELSE Mem(ErrNil, 0, [fs EXCEPT !.fds = MapPut(@, r, fs.files[name])])
    ELSE Mem(ErrNoSuchFile, 0, fs)

memFS_Mkdir(fs, name) ==
    IF name \in DOMAIN fs.files
    THEN Mem(errPathExists, 0, fs)
    ELSE Mem(ErrNil, 0, [fs EXCEPT !.objs = Append(@, memFile(TRUE, 0)),
                                   !.files = MapPut(@, name, Len(fs.objs) + 1)])

\* Rename: fs.files[newpath] = f, and nothing else
memFS_Rename(fs, oldpath, newpath) ==
    IF oldpath \in DOMAIN fs.files
    THEN Mem(ErrNil, 0,
             [fs EXCEPT !.files = MapPut(@, newpath, fs.files[oldpath])])
    ELSE Mem(ErrNoSuchFile, 0, fs)

\* Rmdir: the return after the delete is the one at the end of the function
memFS_Rmdir(fs, name) ==
    IF name \in DOMAIN fs.files
    THEN IF ~memIsDir(fs, name)
         THEN Mem(ErrNotADirectory, 0, fs)
         ELSE Mem(ErrNoSuchFile, 0, [fs EXCEPT !.files = MapDel(@, name)])
    ELSE Mem(ErrNoSuchFile, 0, fs)

memFS_Remove(fs, name) ==
    IF name \in DOMAIN fs.files
    THEN IF memIsDir(fs, name)
         THEN Mem(ErrIsADirectory, 0, fs)
         ELSE Mem(ErrNoSuchFile, 0, [fs EXCEPT !.files = MapDel(@, name)])
    ELSE Mem(ErrNoSuchFile, 0, fs)

\* memFile.ReadAt: copy(p, f.content[off:]), nil.  The slice expression
\* faults when off is beyond len(content).
memFile_ReadAt(fs, obj, buflen, off) ==
    IF off > fs.objs[obj].size
    THEN [Mem(ErrNil, 0, fs) EXCEPT !.panic = TRUE]
    ELSE Mem(ErrNil, Min(buflen, fs.objs[obj].size - off), fs)

\* memFile.WriteAt: the content grows to len(p)+off if it is shorter
memFile_WriteAt(fs, obj, plen, off) ==
    IF plen + off >= fs.objs[obj].size
    THEN Mem(ErrNil, plen, [fs EXCEPT !.objs[obj].size = plen + off])
    ELSE Mem(ErrNil, plen, fs)

memFile_Close(fs, obj) == Mem(ErrNil, 0, fs)

(***************************************************************************)
(* A session served by MemFS, one request at a time.  off is the offset    *)
(* field of a READ or WRITE frame.                                         *)
(***************************************************************************)
MaxMemExchanges == 3
MemOffsets == 0..3
memChild == hostD \o <<47, 99>>

MemFrames(k) ==
    {HostFrame("OPEN", ClientId(k), p, <<>>, PFlagRead) : p \in {hostF, hostD}}
    \cup {HostFrame(kind, ClientId(k), FormatBase36(1), <<>>, 2) :
            kind \in {"READ", "WRITE"}}
    \cup {HostFrame("CLOSE", ClientId(k), FormatBase36(1), <<>>, 0)}
    \cup {HostFrame("MKDIR", ClientId(k), p, <<>>, 0) : p \in {hostD, memChild}}
    \cup {HostFrame(kind, ClientId(k), p, <<>>, 0) :
            kind \in {"REMOVE", "RMDIR"}, p \in {hostF, hostD, hostG}}
    \cup {HostFrame("RENAME", ClientId(k), p, q, 0) :
            p \in {hostF, hostD}, q \in {hostD, hostG}}

\* a filesystem just made by MemFS(), or one whose files map holds the
\* regular file /f of two bytes
MemInitial ==
    {MemFS,
     [MemFS EXCEPT !.objs = Append(@, memFile(FALSE, 2)),
                   !.files = MapPut(@, hostF, 2)]}

InitMem ==
    /\ InitServer
    /\ mpkt = NoMPkt
    /\ config = DefaultConfig
    /\ hostfs \in MemInitial

\* the method of memFS, or of the memFile under resource f, that
\* packetWorker calls for the packet
memHandler(fs, pkt, two, f, off, new) ==
    CASE pkt.kind = "OPEN" -> memFS_OpenFile(fs, pathClean(pkt.h), new)
      [] pkt.kind = "MKDIR" -> memFS_Mkdir(fs, pathClean(pkt.h))
      [] pkt.kind = "REMOVE" -> memFS_Remove(fs, pathClean(pkt.h))
      [] pkt.kind = "RMDIR" -> memFS_Rmdir(fs, pathClean(pkt.h))
      [] pkt.kind = "RENAME" ->
            memFS_Rename(fs, pathClean(two.first), pathClean(two.second))
      [] pkt.kind = "READ" /\ f # 0 ->
            memFile_ReadAt(fs, fs.fds[f], clamp(pkt.len, maxReadWriteSize), off)
      [] pkt.kind = "WRITE" /\ f # 0 ->
            memFile_WriteAt(fs, fs.fds[f], pkt.len, off)
      [] OTHER -> Mem(ErrNil, 0, fs)

\* Serve reads frame fr, a worker runs packetWorker on the packet with
\* MemFS as the handler, and the controller writes the response
MemExchange(fr, off) ==
    /\ ~crashed
    /\ pcServe = "reading"
    /\ pipelineIdle
    /\ counter < MaxMemExchanges
    /\ counter' = u32Inc(counter)
    /\ LET mp  == makePacket(fr)
           pkt == newOrderedRequest(mp.pkt, counter)
           f   == getFile(openFiles, pkt.h)
       IN \E mr \in {memHandler(hostfs, pkt, twoPaths(fr), f, off, Len(res) + 1)} :
          \E r \in {packetWorker(pkt, f, Outcome(mr.err, mr.n, FALSE, 0, FALSE))} :
             IF r.panic \/ (mr.panic /\ r.calls # {})
             THEN /\ crashed' = TRUE
                  /\ lastReply' = [pkt |-> pkt, err |-> mp.err, f |-> f,
                                   rp |-> NoReply, calls |-> r.calls,
                                   o |-> OkOutcome, fr |-> fr, off |-> off]
                  /\ UNCHANGED <<regVars, hostfs>>
             ELSE /\ openFiles' = r.files
                  /\ openDirs' = r.dirs
                  /\ handleCtr' = r.ctr
                  /\ res' = r.res
                  /\ hostfs' = IF r.calls = {} THEN hostfs ELSE mr.fs
                  /\ lastReply' = [pkt |-> pkt, err |-> mp.err, f |-> f,
                                   rp |-> orderedResponse(r.rp, pkt),
                                   calls |-> r.calls,
                                   o |-> Outcome(mr.err, mr.n, FALSE, 0, FALSE),
                                   fr |-> fr, off |-> off]
                  /\ UNCHANGED crashed
    /\ UNCHANGED <<pcServe, serveErr, reqLog, pktChan, pktChanClosed, dispVars,
                   rwChan, workClosed, workerVars, working, requests,
                   responses, finiClosed, ctlVars, mpkt, mbytes, upkt,
                   config>>

NextMem ==
    \E fr \in MemFrames(counter + 1) :
        \E off \in IF fr.kind \in {"READ", "WRITE"} THEN MemOffsets ELSE {0} :
            MemExchange(fr, off)

SpecMem == InitMem /\ [][NextMem]_vars

\* the exchange just made was served by MemFS
memServed(x) == "off" \in DOMAIN x

memAnswers(kind) ==
    /\ counter' # counter
    /\ memServed(lastReply')
    /\ lastReply'.pkt.kind = kind

\* C22: Rename fails and changes nothing if the old path is missing or the
\* new path exists; otherwise it succeeds, and afterwards the entry is under
\* the new path and no longer under the old one.
C22_Rename ==
    [][memAnswers("RENAME") =>
          LET old == pathClean(twoPaths(lastReply'.fr).first)
              new == pathClean(twoPaths(lastReply'.fr).second)
          IN IF old \notin DOMAIN hostfs.files \/ new \in DOMAIN hostfs.files
             THEN /\ lastReply'.rp.code # fxOK
                  /\ hostfs' = hostfs
             ELSE /\ lastReply'.rp.code = fxOK
                  /\ new \in DOMAIN hostfs'.files
                  /\ hostfs'.files[new] = hostfs.files[old]
                  /\ old \notin DOMAIN hostfs'.files]_vars

\* the directory has an entry below it
hasChildren(fs, p) ==
    \E q \in DOMAIN fs.files :
        /\ Len(q) > Len(p)
        /\ SubSeq(q, 1, Len(p)) = p
        /\ p = <<47>> \/ q[Len(p) + 1] = 47

\* C23: Remove returns an error exactly when the path does not exist or is a
\* directory, Rmdir exactly when the path does not exist, is not a directory
\* or has children; otherwise the entry is removed and the answer is OK.
C23_RemoveRmdir ==
    [][(memAnswers("REMOVE") \/ memAnswers("RMDIR")) =>
          LET p == pathClean(lastReply'.fr.h)
              refused ==
                  \/ p \notin DOMAIN hostfs.files
                  \/ IF lastReply'.pkt.kind = "REMOVE"
                     THEN memIsDir(hostfs, p)
                     ELSE ~memIsDir(hostfs, p) \/ hasChildren(hostfs, p)
          IN IF refused
             THEN /\ lastReply'.rp.code # fxOK
                  /\ hostfs' = hostfs
             ELSE /\ lastReply'.rp.code = fxOK
                  /\ hostfs'.files = MapDel(hostfs.files, p)]_vars

(***************************************************************************)
(* The transport after Serve has returned.                                 *)
(***************************************************************************)
\* C31: once Serve has returned nothing more is written to the transport.
C31_QuietAfterReturn ==
    [][pcServe = "returned" => wire' = wire]_vars

(***************************************************************************)
(* The controller when MarshalBinary may fail.  responsePacket is an       *)
(* interface and sendReadyPackets has a branch for an error returned by    *)
(* MarshalBinary; here that branch can be taken.                           *)
(***************************************************************************)
NextMarshal ==
    \/ \E fr \in PipeFrames(Len(reqLog) + 1) : ServeRead(fr)
    \/ \E e \in {"EOF", "read error"} : ServeReadErr(e)
    \/ ServeWgWait
    \/ ServeCloseAll
    \/ DispAdmit
    \/ DispSendRW
    \/ DispSendCmd
    \/ DispCloseChans
    \/ DispMgrClose
    \/ PoolRecv
    \/ \E j \in pool : \E o \in PipeOutcomes(j.pkt) : PoolExec(j, o)
    \/ \E j \in pool : PoolReady(j)
    \/ \E o \in PipeOutcomes(cmdPkt) : CmdExec(o)
    \/ CmdReady
    \/ \E ok \in WriteResults, m \in BOOLEAN : CtlRecvRequest(ok, m)
    \/ \E ok \in WriteResults, m \in BOOLEAN : CtlRecvResponse(ok, m)
    \/ CtlFini

SpecMarshal == Init /\ [][NextMarshal]_vars

\* the client ids of the packets in a list, a channel or on the transport
idsOf(s) == {s[i].id : i \in DOMAIN s}

\* the requests the controller holds, received or still in its channel
heldRequests == idsOf(incoming) \cup idsOf(requests)

closeIsNext ==
    /\ ~crashed
    /\ pcDisp = "recv"
    /\ Len(pktChan) > 0
    /\ Head(pktChan).kind = "CLOSE"

\* the READs and WRITEs in flight that name a handle other than the one the
\* next request names
transfersOnOtherHandles ==
    {p \in transfersInFlight : p.h # Head(pktChan).h}

C34_OrderSurvivesWraparound ==
    \A i, j \in 1..Len(wire) :
        i < j => answered(wire[i]) < answered(wire[j])

(***************************************************************************)
(* A frame of unknown type.                                                *)
(***************************************************************************)
\* the k-th frame read carried a type byte makePacket has no case for
unknownType(k) == reqLog[k].err = errUnknownType

\* C35: a frame whose type byte is not a known request type never makes the
\* reader or a worker fault, and the requests read before it are answered:
\* no goroutine has panicked, and when nothing can move any more with the
\* transport still writable every earlier request has its response.
C35_UnknownTypeNoFault ==
    \A k \in DOMAIN reqLog :
        unknownType(k) =>
            /\ ~crashed
            /\ (~ENABLED Next /\ ~writeFailed(wire)) =>
                  \A l \in 1..(k - 1) :
                      \E i \in DOMAIN wire : wire[i].id = reqLog[l].pkt.id

(***************************************************************************)
(* readPacket on arbitrary byte streams.                                   *)
(***************************************************************************)
\* C36: readPacket never faults: whatever bytes the transport holds it
\* returns, and for a frame that declares length 0 or a stream that ends
\* inside the length prefix or inside the frame it returns an error.
C36_ReadPacketNeverFaults ==
    (upkt # NoMPkt /\ upkt.f = "readPacket") =>
        /\ ~upkt.r.panic
        /\ (\/ Len(mpkt.b) < 4
            \/ takeU32(mpkt.b).v = 0
            \/ Len(mpkt.b) - 4 < takeU32(mpkt.b).v) => upkt.r.err # ErrNil

(***************************************************************************)
(* Requests naming a handle that is unknown or of the wrong kind.          *)
(***************************************************************************)
\* the request needs a file handle and pkt.h is not one, needs a directory
\* handle and pkt.h is not one, or is a CLOSE of a handle in neither table
badHandle(pkt) ==
    \/ pkt.kind \in {"READ", "WRITE", "FSTAT", "FSETSTAT"}
          /\ pkt.h \notin DOMAIN openFiles
    \/ pkt.kind = "READDIR" /\ pkt.h \notin DOMAIN openDirs
    \/ pkt.kind = "CLOSE" /\ pkt.h \notin (DOMAIN openFiles \cup DOMAIN openDirs)

\* C37: a well-formed request naming an unknown handle or a handle of the
\* wrong kind is answered with a STATUS other than OK that carries its id,
\* no method of any open resource is called for it, and the two handle
\* tables and the resources stay as they were.
C37_BadHandleRejected ==
    [][(/\ lastReply' # lastReply
        /\ lastReply'.err = ErrNil
        /\ badHandle(lastReply'.pkt)) =>
           /\ lastReply'.rp.type = "STATUS"
           /\ lastReply'.rp.code # fxOK
           /\ lastReply'.rp.id = lastReply'.pkt.id
           /\ lastReply'.calls = {}
           /\ openFiles' = openFiles
           /\ openDirs' = openDirs
           /\ res' = res]_vars

\* a file operation naming a directory handle, or a READDIR naming a file
\* handle, has been answered
C37_Witness ==
    \/ /\ lastReply.pkt.kind \in {"READ", "WRITE", "FSTAT", "FSETSTAT"}
       /\ lastReply.err = ErrNil
       /\ lastReply.pkt.h \in DOMAIN openDirs
       /\ lastReply.rp.type = "STATUS"
    \/ /\ lastReply.pkt.kind = "READDIR"
       /\ lastReply.err = ErrNil
       /\ lastReply.pkt.h \in DOMAIN openFiles
       /\ lastReply.rp.type = "STATUS"

(***************************************************************************)
(* Handles over the life of a connection.                                  *)
(***************************************************************************)
\* C38: a handle that has been issued is never issued again in the same
\* connection, whether its resource is still open or was closed: no two
\* resources the handler ever returned were registered under the same handle.
C38_HandleNeverReissued ==
    \A r1, r2 \in DOMAIN res :
        r1 # r2 => res[r1].handle # res[r2].handle

(***************************************************************************)
(* The STATUS codes on the wire.                                           *)
(***************************************************************************)
\* the status codes of protocol version 3 the server uses
Version3Codes ==
    {fxOK, fxEOF, fxNoSuchFile, fxPermissionDenied, fxFailure, fxBadMessage,
     fxOpUnsupported}

\* C39: every STATUS the server writes carries a code of protocol version 3,
\* whatever error the bundled handler returned.
C39_StatusCodesVersion3 ==
    (memServed(lastReply) /\ lastReply.rp.type = "STATUS") =>
        lastReply.rp.code \in Version3Codes

(***************************************************************************)
(* FSTAT after WRITE on a file served by HostFS.                           *)
(***************************************************************************)
\* C40: an FSTAT on an open file handle that follows an answered WRITE on
\* that handle reports the size the file has now, with the write in it, not
\* the size it had when it was opened.
C40_FstatSeesWrite ==
    [][(/\ lastReply.pkt.kind = "WRITE"
        /\ lastReply.rp.code = fxOK
        /\ lastReply'.pkt.kind = "FSTAT"
        /\ lastReply'.pkt.h = lastReply.pkt.h
        /\ lastReply'.f # 0
        /\ lastReply'.rp.type = "ATTRS"
        /\ hostfs'.fds[lastReply'.f].path \in DOMAIN hostfs'.files) =>
           lastReply'.rp.n = hostfs'.files[hostfs'.fds[lastReply'.f].path].size]_vars

=============================================================================
